---- MODULE Spec2Model ----
(***************************************************************************)
(* kbot: the per-user settings state machine of cmd/kbot.go (enter, edit,  *)
(* save, cancel) over the four sync.Map stores, and the image request that *)
(* free text triggers outside settings mode.                               *)
(*                                                                         *)
(* Strings are sequences of one-character strings, so that TrimPrefix,     *)
(* Fields, ToLower and len are computed as the Go code computes them.      *)
(***************************************************************************)
EXTENDS Integers, Sequences, FiniteSets, TLC

\* ------------------------------------------------------------------ bounds
NumUsers == 1
Users == 1..NumUsers

\* ------------------------------------------------------- string helpers
\* strings.TrimPrefix(s, prefix)
TrimPrefix(s, prefix) ==
    IF Len(s) >= Len(prefix) /\ SubSeq(s, 1, Len(prefix)) = prefix
    THEN SubSeq(s, Len(prefix) + 1, Len(s))
    ELSE s

\* strings.HasPrefix(s, prefix)
HasPrefix(s, prefix) ==
    Len(s) >= Len(prefix) /\ SubSeq(s, 1, Len(prefix)) = prefix

UpperCase == <<"A","B","C","D","E","F","G","H","I","J","K","L","M",
               "N","O","P","Q","R","S","T","U","V","W","X","Y","Z">>
LowerCase == <<"a","b","c","d","e","f","g","h","i","j","k","l","m",
               "n","o","p","q","r","s","t","u","v","w","x","y","z">>

\* unicode.ToLower on one character of the modelled alphabet
ToLowerChar(r) ==
    IF \E i \in 1..Len(UpperCase) : UpperCase[i] = r
    THEN LowerCase[CHOOSE i \in 1..Len(UpperCase) : UpperCase[i] = r]
    ELSE r

\* strings.ToLower(s)
ToLower(s) == [i \in 1..Len(s) |-> ToLowerChar(s[i])]

\* unicode.IsSpace, for the white space a chat message of the model holds
IsSpace(r) == r = " "

\* strings.Fields(s): the maximal runs of non-space characters, in order
RECURSIVE FieldsFrom(_, _, _)
FieldsFrom(s, i, cur) ==
    IF i > Len(s)
    THEN IF cur = <<>> THEN <<>> ELSE <<cur>>
    ELSE IF IsSpace(s[i])
         THEN (IF cur = <<>> THEN <<>> ELSE <<cur>>) \o FieldsFrom(s, i + 1, <<>>)
         ELSE FieldsFrom(s, i + 1, Append(cur, s[i]))

Fields(s) == FieldsFrom(s, 1, <<>>)

\* ------------------------------------------------------------ sync.Map
\* A sync.Map is a function whose domain is the set of keys present.
EmptyMap == <<>>
Has(m, k) == k \in DOMAIN m
Store(m, k, v) == [x \in (DOMAIN m) \cup {k} |-> IF x = k THEN v ELSE m[x]]
Delete(m, k) == [x \in (DOMAIN m) \ {k} |-> m[x]]

\* a LoadOrStore that returns the given value whatever the map holds
LoadOrStoreValue_AlwaysDefault(m, k, v) == v
\* LoadOrStore: the value returned, and the map afterwards
LoadOrStoreValue(m, k, v) == IF Has(m, k) THEN m[k] ELSE v
\* a LoadOrStore that returns the given value for a missing key and does not
\* store it
LoadOrStoreMap_NoInsert(m, k, v) == m
LoadOrStoreMap(m, k, v) == IF Has(m, k) THEN m ELSE Store(m, k, v)


\* ------------------------------------------------------ program constants
\* UserSettings{TextColor: "000000", BgColor: "FFFFFF"}
DefaultUserSettings ==
    [TextColor |-> <<"0","0","0","0","0","0">>,
     BgColor   |-> <<"F","F","F","F","F","F">>]

Hash == <<"#">>
CmdStart == <<"/","s","t","a","r","t">>
CmdSettings == <<"/","s","e","t","t","i","n","g","s">>
CmdTxColor == <<"/","t","x","_","c","o","l","o","r">>
CmdBgColor == <<"/","b","g","_","c","o","l","o","r">>
CmdSaveSettings == <<"/","s","a","v","e","_","s","e","t","t","i","n","g","s">>
CmdCancelSettings == <<"/","c","a","n","c","e","l","_","s","e","t","t","i","n","g","s">>
\* the labels of the three reply-keyboard buttons (setupKeyboards)
\* (each leading emoji is one element, written by its name)
btnSettings == <<"(gear)"," ","S","e","t","t","i","n","g","s">>
btnSaveChanges == <<"(floppy)"," ","S","a","v","e"," ","S","e","t","t","i","n","g","s">>
btnCancelSettings == <<"(back)"," ","C","a","n","c","e","l"," ","&"," ","E","x","i","t">>

\* --------------------------------------------------------------- inputs
\* What a user may type as a color value or as free text: a 3 digit color, a
\* 6 digit color of mixed case behind one '#', a 3 digit color behind two and
\* behind three '#', a value with a non-hex character and a value of a wrong
\* length.
ColorInputs ==
    { <<"f","f","f">>,
      <<"#","1","A","2","b","3","c">>,
      <<"#","#","#","f","f","f">>,
      <<"#","#","f","f","f">>,
      <<"z","z","z","z","z","z">>,
      <<"f","f","f","f">> }

TextInputs == ColorInputs \cup { <<"h","e","l","l","o">> }

\* What may follow the command name in a color-set message: nothing, a blank,
\* one value, or a value followed by a second token.
ColorArgs ==
    { <<>>, <<" ">> }
    \cup { <<" ">> \o v : v \in ColorInputs }
    \cup { <<" "," ","z","z","z","z","z","z"," ","#","#","f","f","f">> }

\* What the image API and Telegram may do with one request: every combination
\* of conditions.
ApiConditions ==
    [ reqErr     : BOOLEAN,          \* http.NewRequestWithContext fails
      doErr      : BOOLEAN,          \* client.Do fails (network error, timeout)
      statusCode : {200, 500},       \* resp.StatusCode
      decodeErr  : BOOLEAN,          \* the body is not the expected JSON
      Status     : {"OK", "ERROR"},  \* ImgbunResponse.Status
      Message    : {"", "quota"},    \* ImgbunResponse.Message
      DirectLink : {"", "link"},     \* ImgbunResponse.DirectLink
      sendErr    : BOOLEAN ]         \* c.Send(photoToSend, ...) fails

\* A condition that cannot arise once an earlier one has ended the exchange
\* (no response without a connection, no body fields without a decoded body)
\* is left at its first value, so that each course of events appears once.
ApiOutcomes ==
    { a \in ApiConditions :
        /\ a.reqErr => ~a.doErr
        /\ (a.reqErr \/ a.doErr) => a.statusCode = 200
        /\ (a.reqErr \/ a.doErr \/ a.statusCode # 200) => ~a.decodeErr
        /\ (a.reqErr \/ a.doErr \/ a.statusCode # 200 \/ a.decodeErr)
              => (a.Status = "OK" /\ a.Message = "" /\ a.DirectLink = "")
        /\ (a.Status # "OK" \/ a.DirectLink = "") => ~a.sendErr }

\* ---------------------------------------------------------------- state
VARIABLES
    userSettingsStore,      \* sync.Map UserID -> UserSettings (permanent)
    tempUserSettingsStore,  \* sync.Map UserID -> UserSettings (being edited)
    userInSettingsMode,     \* sync.Map UserID -> bool
    userWaitingFor,         \* sync.Map UserID -> "tx_color" | "bg_color" | ""
    event,                  \* the update handled last: endpoint, sender, text
    sent,                   \* what the last handler sent with c.Send, in order
    httpRequests,           \* the requests the last handler passed to client.Do
    settingsAtEntry,        \* history: a user's saved settings when the
                            \* current settings session started
    trail,                  \* history: how far a user's last events follow
                            \* enter, inline color-set, save or enter
    probe,                  \* the argument a function is applied to on its
                            \* own, and what the function returned
    running,                \* the handler invocations in progress when
                            \* handlers run step by step: where each is, and
                            \* the values it holds in local variables
    process,                \* the process: its credentials (TeleToken,
                            \* ImgbunAPIKey) and how far kbotCmd has come
    metrics                 \* the counters of initMetrics that count image
                            \* requests and saves, where they are counted

vars == <<userSettingsStore, tempUserSettingsStore, userInSettingsMode,
          userWaitingFor, event, sent, httpRequests, settingsAtEntry,
          trail, probe, running, process, metrics>>

stores == <<userSettingsStore, tempUserSettingsStore, userInSettingsMode,
            userWaitingFor>>

\* c.Send(msg, markup): a message to the sender of the update
Reply(c, msg, markup) == [to |-> c.sender, msg |-> msg, markup |-> markup]

\* ------------------------------------------------------------- helpers
\* isValidHexColor without the conversion to lower case
isValidHexColor_NoLower(hex) ==
    LET h == TrimPrefix(hex, Hash)
        length == Len(h)
    IN  IF length # 3 /\ length # 6
        THEN FALSE
        ELSE \A i \in 1..length :
                \/ h[i] \in {"0","1","2","3","4","5","6","7","8","9"}
                \/ h[i] \in {"a","b","c","d","e","f"}

\* isValidHexColor(hex)
isValidHexColor(hex) ==
    LET h == ToLower(TrimPrefix(hex, Hash))
        length == Len(h)
    IN  IF length # 3 /\ length # 6
        THEN FALSE
        ELSE \A i \in 1..length :
                \/ h[i] \in {"0","1","2","3","4","5","6","7","8","9"}
                \/ h[i] \in {"a","b","c","d","e","f"}

\* isUserInSettingsMode answering from the presence of the entry alone
isUserInSettingsMode_AnyEntry(userID) == Has(userInSettingsMode, userID)

\* isUserInSettingsMode(userID)
isUserInSettingsMode(userID) ==
    IF ~Has(userInSettingsMode, userID)
    THEN FALSE
    ELSE userInSettingsMode[userID] \in BOOLEAN /\ userInSettingsMode[userID]

\* exitSettingsMode without the deletion of the temporary record
exitSettingsMode_KeepsTemp(userID) ==
    /\ userInSettingsMode' = Store(userInSettingsMode, userID, FALSE)
    /\ userWaitingFor' = Store(userWaitingFor, userID, "")
    /\ tempUserSettingsStore' = tempUserSettingsStore

\* exitSettingsMode(userID)
exitSettingsMode(userID) ==
    /\ userInSettingsMode' = Store(userInSettingsMode, userID, FALSE)
    /\ userWaitingFor' = Store(userWaitingFor, userID, "")
    /\ tempUserSettingsStore' = Delete(tempUserSettingsStore, userID)


\* url.QueryEscape on one character: letters, digits and -_.~ stay, a blank
\* becomes '+', anything else its %XX form
QueryEscapeChar(r) ==
    CASE r = " " -> <<"+">>
      [] r = "#" -> <<"%","2","3">>
      [] r = "/" -> <<"%","2","F">>
      [] r = "&" -> <<"%","2","6">>
      [] OTHER   -> <<r>>

\* url.QueryEscape(s)
RECURSIVE QueryEscape(_)
QueryEscape(s) ==
    IF s = <<>> THEN <<>> ELSE QueryEscapeChar(Head(s)) \o QueryEscape(Tail(s))

\* SettingTypeOf with the two commands exchanged
SettingTypeOf_Swapped(commandName) ==
    IF HasPrefix(commandName, CmdTxColor) THEN "bg_color"
    ELSE IF HasPrefix(commandName, CmdBgColor) THEN "tx_color"
    ELSE ""

\* handleSetColor: the setting a command name stands for ("" for neither)
SettingTypeOf(commandName) ==
    IF HasPrefix(commandName, CmdTxColor) THEN "tx_color"
    ELSE IF HasPrefix(commandName, CmdBgColor) THEN "bg_color"
    ELSE ""

\* UpdateColorField writing the other field
UpdateColorField_OtherField(tempSettings, settingType, colorValue) ==
    IF settingType = "tx_color"
    THEN [tempSettings EXCEPT !.BgColor = colorValue]
    ELSE [tempSettings EXCEPT !.TextColor = colorValue]

\* handleSetColor: "Update the corresponding color field"
UpdateColorField(tempSettings, settingType, colorValue) ==
    IF settingType = "tx_color"
    THEN [tempSettings EXCEPT !.TextColor = colorValue]
    ELSE [tempSettings EXCEPT !.BgColor = colorValue]

\* UpdateWaitedField writing the text color whatever is awaited
UpdateWaitedField_AlwaysText(tempSettings, settingType, colorValue) ==
    [tempSettings EXCEPT !.TextColor = colorValue]

\* UpdateWaitedField that stores the value in lower case
UpdateWaitedField_Lowercases(tempSettings, settingType, colorValue) ==
    IF settingType = "tx_color"
    THEN [tempSettings EXCEPT !.TextColor = ToLower(colorValue)]
    ELSE IF settingType = "bg_color"
         THEN [tempSettings EXCEPT !.BgColor = ToLower(colorValue)]
         ELSE tempSettings

\* handleTextInput: "Update the correct color field"
UpdateWaitedField(tempSettings, settingType, colorValue) ==
    IF settingType = "tx_color"
    THEN [tempSettings EXCEPT !.TextColor = colorValue]
    ELSE IF settingType = "bg_color"
         THEN [tempSettings EXCEPT !.BgColor = colorValue]
         ELSE tempSettings

\* ------------------------------------------------------------ handlers
\* A handler's argument c is the tele.Context: c.sender is c.Sender().ID and
\* c.text is c.Message().Text.

\* handleStart that also drops the sender's saved settings
handleStart_ForgetsUser(c) ==
    /\ exitSettingsMode(c.sender)
    /\ userSettingsStore' = Delete(userSettingsStore, c.sender)
    /\ sent' = <<Reply(c, "Hello", "mainMenuMarkup")>>
    /\ httpRequests' = <<>>

\* handleStart that also resets the sender's saved settings to the default
handleStart_ResetsSaved(c) ==
    /\ exitSettingsMode(c.sender)
    /\ userSettingsStore' = Store(userSettingsStore, c.sender, DefaultUserSettings)
    /\ sent' = <<Reply(c, "Hello", "mainMenuMarkup")>>
    /\ httpRequests' = <<>>

\* handleStart that greets the sender and leaves the session as it is
handleStart_KeepsSession(c) ==
    /\ UNCHANGED stores
    /\ sent' = <<Reply(c, "Hello", "mainMenuMarkup")>>
    /\ httpRequests' = <<>>

\* handleStart
handleStart(c) ==
    /\ exitSettingsMode(c.sender)
    /\ UNCHANGED userSettingsStore
    /\ sent' = <<Reply(c, "Hello", "mainMenuMarkup")>>
    /\ httpRequests' = <<>>

\* handleSettingsEnter without the reset of the waiting state
handleSettingsEnter_KeepsWaiting(c) ==
    LET senderID == c.sender
        currentSettings ==
            LoadOrStoreValue(userSettingsStore, senderID, DefaultUserSettings)
    IN  /\ userSettingsStore' =
            LoadOrStoreMap(userSettingsStore, senderID, DefaultUserSettings)
        /\ tempUserSettingsStore' =
            Store(tempUserSettingsStore, senderID, currentSettings)
        /\ userInSettingsMode' = Store(userInSettingsMode, senderID, TRUE)
        /\ UNCHANGED userWaitingFor
        /\ sent' = <<[to |-> c.sender, msg |-> "You are now in settings mode",
                      TextColor |-> currentSettings.TextColor,
                      BgColor |-> currentSettings.BgColor,
                      markup |-> "settingsMenuMarkup"]>>
        /\ httpRequests' = <<>>

\* handleSettingsEnter that keeps the temporary record of a user who has one
handleSettingsEnter_KeepsEdits(c) ==
    LET senderID == c.sender
        currentSettings ==
            LoadOrStoreValue(userSettingsStore, senderID, DefaultUserSettings)
    IN  /\ userSettingsStore' =
            LoadOrStoreMap(userSettingsStore, senderID, DefaultUserSettings)
        /\ tempUserSettingsStore' =
            LoadOrStoreMap(tempUserSettingsStore, senderID, currentSettings)
        /\ userInSettingsMode' = Store(userInSettingsMode, senderID, TRUE)
        /\ userWaitingFor' = Store(userWaitingFor, senderID, "")
        /\ sent' = <<[to |-> c.sender, msg |-> "You are now in settings mode",
                      TextColor |-> currentSettings.TextColor,
                      BgColor |-> currentSettings.BgColor,
                      markup |-> "settingsMenuMarkup"]>>
        /\ httpRequests' = <<>>

\* handleSettingsEnter
handleSettingsEnter(c) ==
    LET senderID == c.sender
        currentSettings ==
            LoadOrStoreValue(userSettingsStore, senderID, DefaultUserSettings)
    IN  /\ userSettingsStore' =
            LoadOrStoreMap(userSettingsStore, senderID, DefaultUserSettings)
        /\ tempUserSettingsStore' =
            Store(tempUserSettingsStore, senderID, currentSettings)
        /\ userInSettingsMode' = Store(userInSettingsMode, senderID, TRUE)
        /\ userWaitingFor' = Store(userWaitingFor, senderID, "")
        /\ sent' = <<[to |-> c.sender, msg |-> "You are now in settings mode",
                      TextColor |-> currentSettings.TextColor,
                      BgColor |-> currentSettings.BgColor,
                      markup |-> "settingsMenuMarkup"]>>
        /\ httpRequests' = <<>>

\* handleSetColor
handleSetColor(c) ==
    LET senderID == c.sender
        parts == Fields(c.text)
        commandName == parts[1]
        settingType == SettingTypeOf(commandName)
        colorValue == TrimPrefix(parts[2], Hash)
    IN  /\ httpRequests' = <<>>
        /\ IF ~isUserInSettingsMode(senderID)
           THEN /\ UNCHANGED stores
                /\ sent' = <<Reply(c, "This command is only available in settings mode",
                                   "mainMenuMarkup")>>
           ELSE IF settingType = ""
           THEN /\ UNCHANGED stores
                /\ sent' = <<>>
           ELSE IF Len(parts) >= 2
           THEN IF ~isValidHexColor(colorValue)
                THEN /\ UNCHANGED stores
                     /\ sent' = <<[to |-> c.sender, msg |-> "doesn't look like a valid HEX color",
                                   value |-> colorValue,
                                   markup |-> "settingsMenuMarkup"]>>
                ELSE IF ~Has(tempUserSettingsStore, senderID)
                THEN /\ exitSettingsMode(senderID)
                     /\ UNCHANGED userSettingsStore
                     /\ sent' = <<Reply(c, "An internal state error occurred",
                                        "mainMenuMarkup")>>
                ELSE /\ tempUserSettingsStore' =
                            Store(tempUserSettingsStore, senderID,
                                  UpdateColorField(tempUserSettingsStore[senderID],
                                                   settingType, colorValue))
                     /\ userWaitingFor' = Store(userWaitingFor, senderID, "")
                     /\ UNCHANGED <<userSettingsStore, userInSettingsMode>>
                     /\ sent' = <<[to |-> c.sender, msg |-> "Temporarily set",
                                   settingType |-> settingType,
                                   value |-> colorValue,
                                   markup |-> "settingsMenuMarkup"]>>
           ELSE /\ userWaitingFor' = Store(userWaitingFor, senderID, settingType)
                /\ UNCHANGED <<userSettingsStore, tempUserSettingsStore,
                               userInSettingsMode>>
                /\ sent' = <<[to |-> c.sender, msg |-> "Please send the desired color",
                              settingType |-> settingType,
                              markup |-> "settingsMenuMarkup"]>>

\* handleSettingsSave leaving out the write to the permanent store
handleSettingsSave_SkipsStore(c) ==
    LET senderID == c.sender
    IN  /\ httpRequests' = <<>>
        /\ IF ~isUserInSettingsMode(senderID)
           THEN /\ UNCHANGED stores
                /\ sent' = <<Reply(c, "You are not in settings mode.", "mainMenuMarkup")>>
           ELSE IF ~Has(tempUserSettingsStore, senderID)
           THEN /\ exitSettingsMode(senderID)
                /\ UNCHANGED userSettingsStore
                /\ sent' = <<Reply(c, "An internal error occurred while saving",
                                   "mainMenuMarkup")>>
           ELSE /\ UNCHANGED userSettingsStore
                /\ exitSettingsMode(senderID)
                /\ sent' = <<Reply(c, "Settings saved successfully!", "mainMenuMarkup")>>

\* handleSettingsSave that reports missing temporary settings and stays in
\* settings mode
handleSettingsSave_NoRecovery(c) ==
    LET senderID == c.sender
    IN  /\ httpRequests' = <<>>
        /\ IF ~isUserInSettingsMode(senderID)
           THEN /\ UNCHANGED stores
                /\ sent' = <<Reply(c, "You are not in settings mode.", "mainMenuMarkup")>>
           ELSE IF ~Has(tempUserSettingsStore, senderID)
           THEN /\ UNCHANGED stores
                /\ sent' = <<Reply(c, "An internal error occurred while saving",
                                   "mainMenuMarkup")>>
           ELSE /\ userSettingsStore' =
                       Store(userSettingsStore, senderID,
                             tempUserSettingsStore[senderID])
                /\ exitSettingsMode(senderID)
                /\ sent' = <<Reply(c, "Settings saved successfully!", "mainMenuMarkup")>>

\* handleSettingsSave that confirms the save with the settings keyboard
handleSettingsSave_KeepsKeyboard(c) ==
    LET senderID == c.sender
    IN  /\ httpRequests' = <<>>
        /\ IF ~isUserInSettingsMode(senderID)
           THEN /\ UNCHANGED stores
                /\ sent' = <<Reply(c, "You are not in settings mode.", "mainMenuMarkup")>>
           ELSE IF ~Has(tempUserSettingsStore, senderID)
           THEN /\ exitSettingsMode(senderID)
                /\ UNCHANGED userSettingsStore
                /\ sent' = <<Reply(c, "An internal error occurred while saving",
                                   "mainMenuMarkup")>>
           ELSE /\ userSettingsStore' =
                       Store(userSettingsStore, senderID,
                             tempUserSettingsStore[senderID])
                /\ exitSettingsMode(senderID)
                /\ sent' = <<Reply(c, "Settings saved successfully!",
                                   "settingsMenuMarkup")>>

\* handleSettingsSave
handleSettingsSave(c) ==
    LET senderID == c.sender
    IN  /\ httpRequests' = <<>>
        /\ IF ~isUserInSettingsMode(senderID)
           THEN /\ UNCHANGED stores
                /\ sent' = <<Reply(c, "You are not in settings mode.", "mainMenuMarkup")>>
           ELSE IF ~Has(tempUserSettingsStore, senderID)
           THEN /\ exitSettingsMode(senderID)
                /\ UNCHANGED userSettingsStore
                /\ sent' = <<Reply(c, "An internal error occurred while saving",
                                   "mainMenuMarkup")>>
           ELSE /\ userSettingsStore' =
                       Store(userSettingsStore, senderID,
                             tempUserSettingsStore[senderID])
                /\ exitSettingsMode(senderID)
                /\ sent' = <<Reply(c, "Settings saved successfully!", "mainMenuMarkup")>>

\* handleSettingsCancel committing the edit before it leaves
handleSettingsCancel_Commits(c) ==
    LET senderID == c.sender
    IN  /\ httpRequests' = <<>>
        /\ IF ~isUserInSettingsMode(senderID)
           THEN /\ UNCHANGED stores
                /\ sent' = <<Reply(c, "You are not currently in settings mode.",
                                   "mainMenuMarkup")>>
           ELSE /\ exitSettingsMode(senderID)
                /\ userSettingsStore' =
                       IF Has(tempUserSettingsStore, senderID)
                       THEN Store(userSettingsStore, senderID,
                                  tempUserSettingsStore[senderID])
                       ELSE userSettingsStore
                /\ sent' = <<Reply(c, "Settings mode cancelled", "mainMenuMarkup")>>

\* handleSettingsCancel without the check of the mode
handleSettingsCancel_NoModeCheck(c) ==
    /\ httpRequests' = <<>>
    /\ exitSettingsMode(c.sender)
    /\ UNCHANGED userSettingsStore
    /\ sent' = <<Reply(c, "Settings mode cancelled", "mainMenuMarkup")>>

\* handleSettingsCancel that returns without a reply outside settings mode
handleSettingsCancel_Silent(c) ==
    LET senderID == c.sender
    IN  /\ httpRequests' = <<>>
        /\ IF ~isUserInSettingsMode(senderID)
           THEN /\ UNCHANGED stores
                /\ sent' = <<>>
           ELSE /\ exitSettingsMode(senderID)
                /\ UNCHANGED userSettingsStore
                /\ sent' = <<Reply(c, "Settings mode cancelled", "mainMenuMarkup")>>

\* handleSettingsCancel
handleSettingsCancel(c) ==
    LET senderID == c.sender
    IN  /\ httpRequests' = <<>>
        /\ IF ~isUserInSettingsMode(senderID)
           THEN /\ UNCHANGED stores
                /\ sent' = <<Reply(c, "You are not currently in settings mode.",
                                   "mainMenuMarkup")>>
           ELSE /\ exitSettingsMode(senderID)
                /\ UNCHANGED userSettingsStore
                /\ sent' = <<Reply(c, "Settings mode cancelled", "mainMenuMarkup")>>


\* the Telegram caption limit generateAndSendImage trims to
CaptionLimit == 1024

\* CaptionOf that keeps as many bytes as the limit before the marker
CaptionOf_CutsAtLimit(text) ==
    LET caption == <<"I","m","a","g","e"," ","f","o","r",":"," ","'">> \o text \o <<"'">>
    IN  IF Len(caption) > CaptionLimit
        THEN SubSeq(caption, 1, CaptionLimit) \o <<".", ".", ".">>
        ELSE caption

\* generateAndSendImage: the caption of the photo, trimmed if too long
CaptionOf(text) ==
    LET caption == <<"I","m","a","g","e"," ","f","o","r",":"," ","'">> \o text \o <<"'">>
    IN  IF Len(caption) > CaptionLimit
        THEN SubSeq(caption, 1, CaptionLimit - 4) \o <<".", ".", ".">>
        ELSE caption

\* ImageURL that passes the colors on as they are stored
ImageURL_KeepsDelimiter(currentSettings, text) ==
    [key        |-> "ImgbunAPIKey",
     text       |-> QueryEscape(text),
     color      |-> QueryEscape(currentSettings.TextColor),
     background |-> QueryEscape(currentSettings.BgColor),
     size       |-> "16",
     format     |-> "json"]

\* generateAndSendImage: the request URL built from the settings looked up
\* and the text of the message
ImageURL(currentSettings, text) ==
    LET textColorHex == TrimPrefix(currentSettings.TextColor, Hash)
        bgColorHex == TrimPrefix(currentSettings.BgColor, Hash)
    IN  [key        |-> "ImgbunAPIKey",
         text       |-> QueryEscape(text),
         color      |-> QueryEscape(textColorHex),
         background |-> QueryEscape(bgColorHex),
         size       |-> "16",
         format     |-> "json"]

\* the requests passed to client.Do with a second attempt after a failure
ImageRequests_Retries(api, apiURL) ==
    IF api.reqErr THEN <<>>
    ELSE IF api.doErr THEN <<apiURL, apiURL>>
    ELSE <<apiURL>>

\* generateAndSendImage: the requests passed to client.Do
ImageRequests(api, apiURL) ==
    IF api.reqErr THEN <<>> ELSE <<apiURL>>

\* the replies, with the body decoded before the status code is looked at
ImageReplies_DecodesFirst(c, api) ==
    LET photoToSend == [to      |-> c.sender,
                        msg     |-> "photo",
                        File    |-> api.DirectLink,
                        Caption |-> CaptionOf(c.text),
                        markup  |-> "mainMenuMarkup"]
    IN  IF api.reqErr
        THEN <<Reply(c, "Failed to generate image: could not create request.",
                     "mainMenuMarkup")>>
        ELSE IF api.doErr
        THEN <<Reply(c, "Failed to generate image: network error or service unavailable.",
                     "mainMenuMarkup")>>
        ELSE IF api.decodeErr
        THEN <<Reply(c, "Failed to process response from image service.",
                     "mainMenuMarkup")>>
        ELSE IF api.statusCode # 200
        THEN <<[to |-> c.sender, msg |-> "Failed to generate image: service returned error",
                code |-> api.statusCode, markup |-> "mainMenuMarkup"]>>
        ELSE IF api.Status # "OK"
        THEN <<[to |-> c.sender, msg |-> "Failed to generate image.",
                serviceMessage |-> api.Message, markup |-> "mainMenuMarkup"]>>
        ELSE IF api.DirectLink = ""
        THEN <<Reply(c, "Image service returned success but did not provide an image link.",
                     "mainMenuMarkup")>>
        ELSE IF api.sendErr
        THEN <<photoToSend,
               Reply(c, "Failed to send the generated image.", "mainMenuMarkup")>>
        ELSE <<photoToSend>>

\* generateAndSendImage: what is sent to the user, with what the image API
\* and Telegram do as api
ImageReplies(c, api) ==
    LET photoToSend == [to      |-> c.sender,
                        msg     |-> "photo",
                        File    |-> api.DirectLink,
                        Caption |-> CaptionOf(c.text),
                        markup  |-> "mainMenuMarkup"]
    IN  IF api.reqErr
        THEN <<Reply(c, "Failed to generate image: could not create request.",
                     "mainMenuMarkup")>>
        ELSE IF api.doErr
        THEN <<Reply(c, "Failed to generate image: network error or service unavailable.",
                     "mainMenuMarkup")>>
        ELSE IF api.statusCode # 200
        THEN <<[to |-> c.sender, msg |-> "Failed to generate image: service returned error",
                code |-> api.statusCode, markup |-> "mainMenuMarkup"]>>
        ELSE IF api.decodeErr
        THEN <<Reply(c, "Failed to process response from image service.",
                     "mainMenuMarkup")>>
        ELSE IF api.Status # "OK"
        THEN <<[to |-> c.sender, msg |-> "Failed to generate image.",
                serviceMessage |-> api.Message, markup |-> "mainMenuMarkup"]>>
        ELSE IF api.DirectLink = ""
        THEN <<Reply(c, "Image service returned success but did not provide an image link.",
                     "mainMenuMarkup")>>
        ELSE IF api.sendErr
        THEN <<photoToSend,
               Reply(c, "Failed to send the generated image.", "mainMenuMarkup")>>
        ELSE <<photoToSend>>

\* generateAndSendImage that also records the sender as not in settings mode
generateAndSendImage_MarksIdle(c, api) ==
    LET senderID == c.sender
        text == c.text
        currentSettings ==
            LoadOrStoreValue(userSettingsStore, senderID, DefaultUserSettings)
        apiURL == ImageURL(currentSettings, text)
    IN  /\ userSettingsStore' =
            LoadOrStoreMap(userSettingsStore, senderID, DefaultUserSettings)
        /\ userInSettingsMode' = Store(userInSettingsMode, senderID, FALSE)
        /\ UNCHANGED <<tempUserSettingsStore, userWaitingFor>>
        /\ httpRequests' = ImageRequests(api, apiURL)
        /\ sent' = ImageReplies(c, api)

\* generateAndSendImage, with what the image API and Telegram do as api
generateAndSendImage(c, api) ==
    LET senderID == c.sender
        text == c.text
        currentSettings ==
            LoadOrStoreValue(userSettingsStore, senderID, DefaultUserSettings)
        apiURL == ImageURL(currentSettings, text)
    IN  /\ userSettingsStore' =
            LoadOrStoreMap(userSettingsStore, senderID, DefaultUserSettings)
        /\ UNCHANGED <<tempUserSettingsStore, userInSettingsMode, userWaitingFor>>
        /\ httpRequests' = ImageRequests(api, apiURL)
        /\ sent' = ImageReplies(c, api)

\* handleTextInput without its check of the settings mode: free text sent in
\* settings mode with no field awaited is turned into an image
handleTextInput_NoModeCheck(c) ==
    LET senderID == c.sender
        text == c.text
        userIsWaiting == Has(userWaitingFor, senderID)
        waitingFor == userWaitingFor[senderID]
        colorValue == TrimPrefix(text, Hash)
    IN  IF userIsWaiting /\ waitingFor \in STRING /\ waitingFor # ""
        THEN /\ httpRequests' = <<>>
             /\ IF ~isValidHexColor(colorValue)
                THEN /\ UNCHANGED stores
                     /\ sent' = <<[to |-> c.sender, msg |-> "doesn't look like a valid HEX color",
                                   value |-> text,
                                   settingType |-> waitingFor,
                                   markup |-> "settingsMenuMarkup"]>>
                ELSE IF ~Has(tempUserSettingsStore, senderID)
                THEN /\ exitSettingsMode(senderID)
                     /\ UNCHANGED userSettingsStore
                     /\ sent' = <<Reply(c, "A state error occurred", "mainMenuMarkup")>>
                ELSE /\ tempUserSettingsStore' =
                            Store(tempUserSettingsStore, senderID,
                                  UpdateWaitedField(tempUserSettingsStore[senderID],
                                                    waitingFor, colorValue))
                     /\ userWaitingFor' = Store(userWaitingFor, senderID, "")
                     /\ UNCHANGED <<userSettingsStore, userInSettingsMode>>
                     /\ sent' = <<[to |-> c.sender, msg |-> "Temporarily set",
                                   settingType |-> waitingFor,
                                   value |-> colorValue,
                                   markup |-> "settingsMenuMarkup"]>>
        ELSE \E api \in ApiOutcomes : generateAndSendImage(c, api)

\* handleTextInput
handleTextInput(c) ==
    LET senderID == c.sender
        text == c.text
        userIsWaiting == Has(userWaitingFor, senderID)
        waitingFor == userWaitingFor[senderID]
        colorValue == TrimPrefix(text, Hash)
    IN  IF userIsWaiting /\ waitingFor \in STRING /\ waitingFor # ""
        THEN /\ httpRequests' = <<>>
             /\ IF ~isValidHexColor(colorValue)
                THEN /\ UNCHANGED stores
                     /\ sent' = <<[to |-> c.sender, msg |-> "doesn't look like a valid HEX color",
                                   value |-> text,
                                   settingType |-> waitingFor,
                                   markup |-> "settingsMenuMarkup"]>>
                ELSE IF ~Has(tempUserSettingsStore, senderID)
                THEN /\ exitSettingsMode(senderID)
                     /\ UNCHANGED userSettingsStore
                     /\ sent' = <<Reply(c, "A state error occurred", "mainMenuMarkup")>>
                ELSE /\ tempUserSettingsStore' =
                            Store(tempUserSettingsStore, senderID,
                                  UpdateWaitedField(tempUserSettingsStore[senderID],
                                                    waitingFor, colorValue))
                     /\ userWaitingFor' = Store(userWaitingFor, senderID, "")
                     /\ UNCHANGED <<userSettingsStore, userInSettingsMode>>
                     /\ sent' = <<[to |-> c.sender, msg |-> "Temporarily set",
                                   settingType |-> waitingFor,
                                   value |-> colorValue,
                                   markup |-> "settingsMenuMarkup"]>>
        ELSE IF isUserInSettingsMode(senderID)
        THEN /\ httpRequests' = <<>>
             /\ UNCHANGED stores
             /\ sent' = <<Reply(c, "Please use the commands", "settingsMenuMarkup")>>
        ELSE \E api \in ApiOutcomes : generateAndSendImage(c, api)

\* ---------------------------------------------------------- dispatching
\* initMetrics: the counters kbot.image.requests.total,
\* kbot.image.success.total, kbot.image.failure.total and
\* kbot.settings.save.total, as they are created
initMetrics ==
    [imageGenRequestCounter |-> 0,
     imageGenSuccessCounter |-> 0,
     imageGenFailureCounter |-> 0,
     settingsSaveCounter    |-> 0]

\* no function is being applied on its own
NoProbe == [kind |-> "none"]

\* registerHandlers: the endpoints a handler is registered for
registerHandlers ==
    {"/start", "btnSettings", "/settings", "/tx_color", "/bg_color",
     "btnSaveChanges", "/save_settings", "btnCancelSettings",
     "/cancel_settings", "OnText"}

\* kbotCmd has found both credentials, created the bot, registered the
\* handlers and started the bot's main loop
Serving == [pc |-> "serving", TeleToken |-> "TeleToken",
            ImgbunAPIKey |-> "ImgbunAPIKey", handlers |-> registerHandlers]

\* The handler invocations that can be in progress at once when handlers
\* run step by step, and a slot without one.
MaxHandlers == 2

Slots == 1..MaxHandlers

NoSettings == [TextColor |-> <<>>, BgColor |-> <<>>]

NoReply == [to |-> 0, msg |-> "", markup |-> ""]

Returned ==
    [pc         |-> "returned",
     endpoint   |-> "",
     c          |-> [sender |-> 0, text |-> <<>>],
     waitingFor |-> "",
     settings   |-> NoSettings,
     reply      |-> NoReply]

NoneRunning == [slot \in Slots |-> Returned]

\* the tele.Context of an update from userID with the given message text
Context(userID, text) == [sender |-> userID, text |-> text]

\* the saved settings a lookup of the user returns (the default for no entry)
SavedSettings(userID) ==
    LoadOrStoreValue(userSettingsStore, userID, DefaultUserSettings)

\* History: what SavedSettings(userID) was when the user's current settings
\* session started; no record outside a session.
History(userID) ==
    settingsAtEntry' =
        IF isUserInSettingsMode(userID)'
        THEN IF isUserInSettingsMode(userID)
             THEN settingsAtEntry
             ELSE Store(settingsAtEntry, userID, SavedSettings(userID))
        ELSE Delete(settingsAtEntry, userID)

\* The update handled: the endpoint it was routed to, its sender and its text.
Handled(endpoint, userID, text) ==
    /\ event' = [endpoint |-> endpoint, sender |-> userID, text |-> text]
    /\ History(userID)
    /\ UNCHANGED <<trail, probe, running, process, metrics>>

\* registerHandlers: one action per handler, for the endpoints registered to
\* it; each update is handled to the end.
Start(userID) ==
    /\ handleStart(Context(userID, CmdStart))
    /\ Handled("/start", userID, CmdStart)

SettingsEnter(userID) ==
    \E m \in {[endpoint |-> "btnSettings", text |-> btnSettings],
              [endpoint |-> "/settings", text |-> CmdSettings]} :
        /\ handleSettingsEnter(Context(userID, m.text))
        /\ Handled(m.endpoint, userID, m.text)

SetColor(userID) ==
    \E m \in {[endpoint |-> "/tx_color", text |-> CmdTxColor],
              [endpoint |-> "/bg_color", text |-> CmdBgColor]},
       args \in ColorArgs :
        /\ handleSetColor(Context(userID, m.text \o args))
        /\ Handled(m.endpoint, userID, m.text \o args)

SettingsSave(userID) ==
    \E m \in {[endpoint |-> "btnSaveChanges", text |-> btnSaveChanges],
              [endpoint |-> "/save_settings", text |-> CmdSaveSettings]} :
        /\ handleSettingsSave(Context(userID, m.text))
        /\ Handled(m.endpoint, userID, m.text)

SettingsCancel(userID) ==
    \E m \in {[endpoint |-> "btnCancelSettings", text |-> btnCancelSettings],
              [endpoint |-> "/cancel_settings", text |-> CmdCancelSettings]} :
        /\ handleSettingsCancel(Context(userID, m.text))
        /\ Handled(m.endpoint, userID, m.text)

TextInput(userID) ==
    \E text \in TextInputs :
        /\ handleTextInput(Context(userID, text))
        /\ Handled("OnText", userID, text)

Init ==
    /\ userSettingsStore = EmptyMap
    /\ tempUserSettingsStore = EmptyMap
    /\ userInSettingsMode = EmptyMap
    /\ userWaitingFor = EmptyMap
    /\ event = [endpoint |-> "", sender |-> 0, text |-> <<>>]
    /\ sent = <<>>
    /\ httpRequests = <<>>
    /\ settingsAtEntry = EmptyMap
    /\ trail = EmptyMap
    /\ probe = NoProbe
    /\ running = NoneRunning
    /\ process = Serving
    /\ metrics = initMetrics

Next ==
    \E userID \in Users :
        \/ Start(userID)
        \/ SettingsEnter(userID)
        \/ SetColor(userID)
        \/ SettingsSave(userID)
        \/ SettingsCancel(userID)
        \/ TextInput(userID)

Spec == Init /\ [][Next]_vars


\* =============================================================== claims
\* The session state of a user, read from the stores.
InSettings(userID) ==
    Has(userInSettingsMode, userID) /\ userInSettingsMode[userID] = TRUE

Pending(userID) ==
    IF Has(userWaitingFor, userID) THEN userWaitingFor[userID] ELSE ""

\* The documented defaults and the documented form of a color value: 3 or 6
\* hexadecimal digits, behind at most one '#'.
DocumentedDefault ==
    [TextColor |-> <<"0","0","0","0","0","0">>,
     BgColor   |-> <<"F","F","F","F","F","F">>]

HexDigits ==
    {"0","1","2","3","4","5","6","7","8","9",
     "a","b","c","d","e","f","A","B","C","D","E","F"}

IsHexColor(s) ==
    /\ Len(s) \in {3, 6}
    /\ \A i \in 1..Len(s) : s[i] \in HexDigits

StripDelimiter(v) == IF v # <<>> /\ Head(v) = "#" THEN Tail(v) ELSE v

WellFormedColor(v) == IsHexColor(StripDelimiter(v))

SaveEndpoints == {"btnSaveChanges", "/save_settings"}
CancelEndpoints == {"btnCancelSettings", "/cancel_settings"}
EnterEndpoints == {"btnSettings", "/settings"}
ColorEndpoints == {"/tx_color", "/bg_color"}

\* the field of UserSettings a color-set endpoint or an awaited setting names
FieldOf(name) ==
    IF name \in {"/tx_color", "tx_color"} THEN "TextColor" ELSE "BgColor"

\* the step handles an update of userID routed to one of the endpoints
Handles(userID, endpoints) ==
    event'.sender = userID /\ event'.endpoint \in endpoints

\* C1: a save handled for a user who is in settings mode and has temporary
\* settings leaves the permanent settings equal to the temporary settings of
\* before the save, no temporary settings, nothing awaited and the mode Idle.
C1_SaveCommits ==
    [][\A userID \in Users :
          (/\ Handles(userID, SaveEndpoints)
           /\ InSettings(userID)
           /\ Has(tempUserSettingsStore, userID))
          => (/\ Has(userSettingsStore', userID)
              /\ userSettingsStore'[userID] = tempUserSettingsStore[userID]
              /\ ~Has(tempUserSettingsStore', userID)
              /\ Pending(userID)' = ""
              /\ ~InSettings(userID)')]_vars

\* C1 witness: a save has committed an edited text color.
C1_Witness ==
    \E userID \in Users :
        /\ event.sender = userID /\ event.endpoint \in SaveEndpoints
        /\ sent = <<[to |-> userID, msg |-> "Settings saved successfully!",
                     markup |-> "mainMenuMarkup"]>>
        /\ Has(userSettingsStore, userID)
        /\ userSettingsStore[userID].TextColor = <<"1","A","2","b","3","c">>
        /\ ~Has(tempUserSettingsStore, userID)

\* C2: a cancel handled in settings mode (a field awaited or not) writes
\* nothing to the permanent store, leaves the saved settings what they were
\* when the settings session started, removes the temporary settings, clears
\* the awaited field and sets the mode to Idle.
C2_CancelDiscards ==
    [][\A userID \in Users :
          (Handles(userID, CancelEndpoints) /\ InSettings(userID))
          => (/\ userSettingsStore' = userSettingsStore
              /\ Has(settingsAtEntry, userID)
              /\ SavedSettings(userID)' = settingsAtEntry[userID]
              /\ ~Has(tempUserSettingsStore', userID)
              /\ Pending(userID)' = ""
              /\ ~InSettings(userID)')]_vars

\* C2 witness: a cancel has ended a settings session of a user whose saved
\* settings are not the defaults.
C2_Witness ==
    \E userID \in Users :
        /\ event.sender = userID /\ event.endpoint \in CancelEndpoints
        /\ sent = <<[to |-> userID, msg |-> "Settings mode cancelled",
                     markup |-> "mainMenuMarkup"]>>
        /\ Has(userSettingsStore, userID)
        /\ userSettingsStore[userID] # DocumentedDefault
        /\ ~Has(tempUserSettingsStore, userID)

\* C3: entering settings, from any session state, leaves temporary settings
\* equal to the permanent settings (the documented default for a user without
\* any), the mode InSettings and nothing awaited.
C3_EnterCopies ==
    [][\A userID \in Users :
          Handles(userID, EnterEndpoints)
          => (/\ Has(tempUserSettingsStore', userID)
              /\ tempUserSettingsStore'[userID] =
                    (IF Has(userSettingsStore, userID)
                     THEN userSettingsStore[userID]
                     ELSE DocumentedDefault)
              /\ Has(userSettingsStore', userID)
              /\ tempUserSettingsStore'[userID] = userSettingsStore'[userID]
              /\ InSettings(userID)'
              /\ Pending(userID)' = "")]_vars

\* C3 witness: settings entered by a user whose saved background is not the
\* default.
C3_Witness ==
    \E userID \in Users :
        /\ event.sender = userID /\ event.endpoint \in EnterEndpoints
        /\ InSettings(userID)
        /\ Has(tempUserSettingsStore, userID)
        /\ tempUserSettingsStore[userID].BgColor = <<"f","f","f">>
        /\ tempUserSettingsStore[userID] = userSettingsStore[userID]

\* C4: a color-set command with a well-formed inline value, handled in
\* settings mode (a field awaited or not), writes the value (without its '#')
\* into the field the command names and into no other, leaves the permanent
\* settings and the mode unchanged and leaves nothing awaited.
C4_InlineSetsField ==
    [][\A userID \in Users :
          (/\ Handles(userID, ColorEndpoints)
           /\ InSettings(userID)
           /\ Len(Fields(event'.text)) >= 2
           /\ WellFormedColor(Fields(event'.text)[2]))
          => (/\ Has(tempUserSettingsStore, userID)
              /\ Has(tempUserSettingsStore', userID)
              /\ tempUserSettingsStore'[userID] =
                    [tempUserSettingsStore[userID]
                        EXCEPT ![FieldOf(event'.endpoint)] =
                                  StripDelimiter(Fields(event'.text)[2])]
              /\ userSettingsStore' = userSettingsStore
              /\ userInSettingsMode' = userInSettingsMode
              /\ Pending(userID)' = "")]_vars

\* C4 witness: /bg_color with an inline value has set the temporary background
\* and nothing is awaited.
C4_Witness ==
    \E userID \in Users :
        /\ event.sender = userID /\ event.endpoint = "/bg_color"
        /\ Len(Fields(event.text)) >= 2
        /\ Fields(event.text)[2] = <<"#","1","A","2","b","3","c">>
        /\ InSettings(userID)
        /\ tempUserSettingsStore[userID].BgColor = <<"1","A","2","b","3","c">>
        /\ tempUserSettingsStore[userID].TextColor # <<"1","A","2","b","3","c">>
        /\ Pending(userID) = ""


\* C5: a malformed color value, inline with a color-set command handled in
\* settings mode or as free text while a field is awaited, changes none of the
\* four stores and is answered by the invalid-format reply.
C5_MalformedChangesNothing ==
    [][\A userID \in Users :
          (\/ /\ Handles(userID, ColorEndpoints)
              /\ InSettings(userID)
              /\ Len(Fields(event'.text)) >= 2
              /\ ~WellFormedColor(Fields(event'.text)[2])
           \/ /\ Handles(userID, {"OnText"})
              /\ Pending(userID) \in {"tx_color", "bg_color"}
              /\ ~WellFormedColor(event'.text))
          => (/\ stores' = stores
              /\ Len(sent') = 1
              /\ sent'[1].msg = "doesn't look like a valid HEX color")]_vars

\* C6: a color-set command without a value, handled in settings mode, makes
\* the field the command names the awaited one (whatever was awaited before)
\* and leaves temporary settings, permanent settings and mode unchanged.
C6_NoValueAwaits ==
    [][\A userID \in Users :
          (/\ Handles(userID, ColorEndpoints)
           /\ InSettings(userID)
           /\ Len(Fields(event'.text)) = 1)
          => (/\ Pending(userID)' =
                    (IF event'.endpoint = "/tx_color" THEN "tx_color" ELSE "bg_color")
              /\ tempUserSettingsStore' = tempUserSettingsStore
              /\ userSettingsStore' = userSettingsStore
              /\ userInSettingsMode' = userInSettingsMode)]_vars

\* C6 witness: /bg_color without a value has been handled in settings mode and
\* the background color is awaited.
C6_Witness ==
    \E userID \in Users :
        /\ event.sender = userID /\ event.endpoint = "/bg_color"
        /\ Len(Fields(event.text)) = 1
        /\ InSettings(userID)
        /\ Pending(userID) = "bg_color"
        /\ Len(sent) = 1 /\ sent[1].msg = "Please send the desired color"

\* C7: while a field is awaited, free text holding a well-formed color writes
\* the value (without its '#') into the awaited field of the temporary
\* settings and into no other, clears the awaited field, stays in settings
\* mode, leaves the permanent settings unchanged and issues no image request.
C7_AwaitedInputSetsField ==
    [][\A userID \in Users :
          (/\ Handles(userID, {"OnText"})
           /\ Pending(userID) \in {"tx_color", "bg_color"}
           /\ WellFormedColor(event'.text))
          => (/\ Has(tempUserSettingsStore, userID)
              /\ Has(tempUserSettingsStore', userID)
              /\ tempUserSettingsStore'[userID] =
                    [tempUserSettingsStore[userID]
                        EXCEPT ![FieldOf(Pending(userID))] =
                                  StripDelimiter(event'.text)]
              /\ Pending(userID)' = ""
              /\ InSettings(userID)'
              /\ userSettingsStore' = userSettingsStore
              /\ userInSettingsMode' = userInSettingsMode
              /\ httpRequests' = <<>>)]_vars

\* C7 witness: free text has set the awaited background color.
C7_Witness ==
    \E userID \in Users :
        /\ event.sender = userID /\ event.endpoint = "OnText"
        /\ event.text = <<"#","1","A","2","b","3","c">>
        /\ Len(sent) = 1 /\ sent[1].msg = "Temporarily set"
        /\ sent[1].settingType = "bg_color"
        /\ tempUserSettingsStore[userID].BgColor = <<"1","A","2","b","3","c">>
        /\ tempUserSettingsStore[userID].TextColor # <<"1","A","2","b","3","c">>
        /\ Pending(userID) = ""
        /\ httpRequests = <<>>

\* C8: a color-set command handled while the mode is Idle, whatever follows
\* the command name, changes none of the four stores and is answered by the
\* settings-mode-required reply.
C8_ColorSetRejectedWhenIdle ==
    [][\A userID \in Users :
          (Handles(userID, ColorEndpoints) /\ ~InSettings(userID))
          => (/\ stores' = stores
              /\ sent' = <<[to |-> userID,
                            msg |-> "This command is only available in settings mode",
                            markup |-> "mainMenuMarkup"]>>)]_vars

\* C8 witness: a color-set command with a well-formed inline value has been
\* rejected for a user who has left settings mode.
C8_Witness ==
    \E userID \in Users :
        /\ event.sender = userID /\ event.endpoint \in ColorEndpoints
        /\ Len(Fields(event.text)) >= 2
        /\ WellFormedColor(Fields(event.text)[2])
        /\ Has(userInSettingsMode, userID) /\ ~InSettings(userID)
        /\ Len(sent) = 1
        /\ sent[1].msg = "This command is only available in settings mode"

\* C9: a save or a cancel handled while the mode is Idle (also for a user
\* without any entry) writes none of the four stores and is answered by the
\* informational reply only.
C9_SaveCancelRejectedWhenIdle ==
    [][\A userID \in Users :
          (Handles(userID, SaveEndpoints \cup CancelEndpoints) /\ ~InSettings(userID))
          => (/\ stores' = stores
              /\ sent' = <<[to |-> userID,
                            msg |-> (IF event'.endpoint \in SaveEndpoints
                                     THEN "You are not in settings mode."
                                     ELSE "You are not currently in settings mode."),
                            markup |-> "mainMenuMarkup"]>>
              /\ httpRequests' = <<>>)]_vars

\* C9 witness: a cancel has been handled for a user none of the stores knows.
C9_Witness ==
    \E userID \in Users :
        /\ event.sender = userID /\ event.endpoint \in CancelEndpoints
        /\ ~Has(userSettingsStore, userID)
        /\ ~Has(tempUserSettingsStore, userID)
        /\ ~Has(userInSettingsMode, userID)
        /\ ~Has(userWaitingFor, userID)
        /\ Len(sent) = 1 /\ sent[1].msg = "You are not currently in settings mode."

\* C10: the image request that free text of an Idle user leads to carries, as
\* color and background, the user's permanent text and background color.
C10_RequestCarriesSavedColors ==
    \A userID \in Users :
        (/\ event.sender = userID /\ event.endpoint = "OnText"
         /\ httpRequests # <<>>)
        => (/\ Has(userSettingsStore, userID)
            /\ httpRequests[1].color = userSettingsStore[userID].TextColor
            /\ httpRequests[1].background = userSettingsStore[userID].BgColor)

\* C11: an image request is issued only by a step that handles free text of a
\* user whose mode is Idle and who is awaited for no field; free text handled
\* for a user in settings mode with no field awaited writes none of the four
\* stores, issues no request and is answered by the list of commands only.
C11_RequestOnlyFromIdleText ==
    [][/\ (httpRequests' # <<>>)
            => (/\ event'.endpoint = "OnText"
                /\ event'.sender \in Users
                /\ ~InSettings(event'.sender)
                /\ Pending(event'.sender) = "")
       /\ \A userID \in Users :
            (/\ Handles(userID, {"OnText"})
             /\ InSettings(userID)
             /\ Pending(userID) = "")
            => (/\ stores' = stores
                /\ httpRequests' = <<>>
                /\ sent' = <<[to |-> userID, msg |-> "Please use the commands",
                              markup |-> "settingsMenuMarkup"]>>)]_vars

\* C11 witness: free text of a user in settings mode, with an edited
\* temporary text color and no field awaited, has been answered by the list
\* of commands.
C11_Witness ==
    \E userID \in Users :
        /\ event.sender = userID /\ event.endpoint = "OnText"
        /\ event.text = <<"h","e","l","l","o">>
        /\ InSettings(userID) /\ Pending(userID) = ""
        /\ Has(tempUserSettingsStore, userID)
        /\ tempUserSettingsStore[userID].TextColor = <<"f","f","f">>
        /\ httpRequests = <<>>
        /\ Len(sent) = 1 /\ sent[1].msg = "Please use the commands"

C14_SavedColorsAreHex ==
    \A userID \in Users :
        Has(userSettingsStore, userID)
        => (/\ IsHexColor(userSettingsStore[userID].TextColor)
            /\ IsHexColor(userSettingsStore[userID].BgColor))

\* C20: the handling of one update issues at most one request to the image
\* API, and the reply that reports a transport failure or timeout follows
\* exactly one request and is the only reply.
C20_AtMostOneRequest ==
    /\ Len(httpRequests) <= 1
    /\ (/\ sent # <<>>
        /\ sent[1].msg = "Failed to generate image: network error or service unavailable.")
       => (Len(httpRequests) = 1 /\ Len(sent) = 1)

\* C20 witness: free text of an Idle user has led to one request, which
\* failed in transport and was reported.
C20_Witness ==
    \E userID \in Users :
        /\ event.sender = userID /\ event.endpoint = "OnText"
        /\ ~InSettings(userID)
        /\ Len(httpRequests) = 1
        /\ sent = <<[to |-> userID,
                     msg |-> "Failed to generate image: network error or service unavailable.",
                     markup |-> "mainMenuMarkup"]>>

\* ------------------------------------------------- sequences of events
\* The trail of a user tells how far the user's last events follow the
\* sequence enter settings, color-set with a well-formed inline value, save
\* (or, in place of the save, enter settings again).
NoTrail == [stage |-> "none"]

TrailOf(userID) == IF Has(trail, userID) THEN trail[userID] ELSE NoTrail

\* the trail of userID after an update routed to endpoint, from the state
\* before the update is handled
Observe(endpoint, userID, text) ==
    LET cur == TrailOf(userID)
        tokens == Fields(text)
        inline == /\ endpoint \in ColorEndpoints
                  /\ Len(tokens) >= 2
                  /\ WellFormedColor(tokens[2])
    IN  IF endpoint \in EnterEndpoints
        THEN IF cur.stage = "edited"
             THEN [cur EXCEPT !.stage = "reentered"]
             ELSE [stage |-> "entered", before |-> SavedSettings(userID)]
        ELSE IF inline /\ cur.stage \in {"entered", "edited"}
        THEN [stage  |-> "edited",
              before |-> cur.before,
              field  |-> FieldOf(endpoint),
              value  |-> StripDelimiter(tokens[2]),
              edits  |-> IF cur.stage = "entered" THEN "one" ELSE "more"]
        ELSE IF endpoint \in SaveEndpoints /\ cur.stage = "edited" /\ cur.edits = "one"
        THEN [cur EXCEPT !.stage = "saved"]
        ELSE NoTrail

\* The update handled, with the trail of its sender.
Observed(endpoint, userID, text) ==
    /\ event' = [endpoint |-> endpoint, sender |-> userID, text |-> text]
    /\ History(userID)
    /\ trail' = Store(trail, userID, Observe(endpoint, userID, text))
    /\ UNCHANGED <<probe, running, process, metrics>>

\* registerHandlers, each update handled to the end, with the trail kept
TrailStart(userID) ==
    /\ handleStart(Context(userID, CmdStart))
    /\ Observed("/start", userID, CmdStart)

TrailSettingsEnter(userID) ==
    \E m \in {[endpoint |-> "btnSettings", text |-> btnSettings],
              [endpoint |-> "/settings", text |-> CmdSettings]} :
        /\ handleSettingsEnter(Context(userID, m.text))
        /\ Observed(m.endpoint, userID, m.text)

TrailSetColor(userID) ==
    \E m \in {[endpoint |-> "/tx_color", text |-> CmdTxColor],
              [endpoint |-> "/bg_color", text |-> CmdBgColor]},
       args \in ColorArgs :
        /\ handleSetColor(Context(userID, m.text \o args))
        /\ Observed(m.endpoint, userID, m.text \o args)

TrailSettingsSave(userID) ==
    \E m \in {[endpoint |-> "btnSaveChanges", text |-> btnSaveChanges],
              [endpoint |-> "/save_settings", text |-> CmdSaveSettings]} :
        /\ handleSettingsSave(Context(userID, m.text))
        /\ Observed(m.endpoint, userID, m.text)

TrailSettingsCancel(userID) ==
    \E m \in {[endpoint |-> "btnCancelSettings", text |-> btnCancelSettings],
              [endpoint |-> "/cancel_settings", text |-> CmdCancelSettings]} :
        /\ handleSettingsCancel(Context(userID, m.text))
        /\ Observed(m.endpoint, userID, m.text)

TrailTextInput(userID) ==
    \E text \in TextInputs :
        /\ handleTextInput(Context(userID, text))
        /\ Observed("OnText", userID, text)

NextTrail ==
    \E userID \in Users :
        \/ TrailStart(userID)
        \/ TrailSettingsEnter(userID)
        \/ TrailSetColor(userID)
        \/ TrailSettingsSave(userID)
        \/ TrailSettingsCancel(userID)
        \/ TrailTextInput(userID)

SpecTrail == Init /\ [][NextTrail]_vars

\* the other field of UserSettings
OtherField(field) == IF field = "TextColor" THEN "BgColor" ELSE "TextColor"

\* the parameter of an image request that carries the field
RequestColor(request, field) ==
    IF field = "TextColor" THEN request.color ELSE request.background

\* C15: when a user's last three events are enter settings, a color-set of
\* field f with a well-formed inline value v (v without its '#' delimiter)
\* and save, the lookup of the user's permanent settings returns v for f and
\* for the other field what it returned before the session; the user's next
\* event sees the saved value: entering settings copies it to the temporary
\* settings and the image request made for free text carries it.
C15_RoundTrip ==
    [][\A userID \in Users :
          /\ (TrailOf(userID)'.stage = "saved")
                => LET t == TrailOf(userID)'
                   IN  /\ Has(userSettingsStore', userID)
                       /\ SavedSettings(userID)'[t.field] = t.value
                       /\ SavedSettings(userID)'[OtherField(t.field)]
                             = t.before[OtherField(t.field)]
          /\ (TrailOf(userID).stage = "saved" /\ event'.sender = userID)
                => LET t == TrailOf(userID)
                   IN  /\ SavedSettings(userID)'[t.field] = t.value
                       /\ event'.endpoint \in EnterEndpoints
                             => (/\ Has(tempUserSettingsStore', userID)
                                 /\ tempUserSettingsStore'[userID][t.field] = t.value)
                       /\ (event'.endpoint = "OnText" /\ httpRequests' # <<>>)
                             => RequestColor(httpRequests'[1], t.field) = t.value
      ]_vars

\* C15 witness: enter settings, /bg_color #1A2b3c, save: the saved background
\* color is 1A2b3c and the saved text color is still the default.
C15_Witness ==
    \E userID \in Users :
        /\ TrailOf(userID).stage = "saved"
        /\ TrailOf(userID).field = "BgColor"
        /\ TrailOf(userID).value = <<"1","A","2","b","3","c">>
        /\ TrailOf(userID).before = DocumentedDefault
        /\ event.sender = userID /\ event.endpoint \in SaveEndpoints
        /\ Has(userSettingsStore, userID)
        /\ userSettingsStore[userID]
              = [TextColor |-> <<"0","0","0","0","0","0">>,
                 BgColor   |-> <<"1","A","2","b","3","c">>]

\* C16: entering settings while already in settings mode leaves the
\* temporary settings equal to the permanent settings, whatever had been
\* edited, nothing awaited, the mode InSettings and the permanent settings
\* unchanged.
C16_ReentryDiscardsEdits ==
    [][\A userID \in Users :
          (Handles(userID, EnterEndpoints) /\ InSettings(userID))
          => (/\ userSettingsStore' = userSettingsStore
              /\ Has(userSettingsStore, userID)
              /\ Has(tempUserSettingsStore', userID)
              /\ tempUserSettingsStore'[userID] = userSettingsStore[userID]
              /\ Pending(userID)' = ""
              /\ InSettings(userID)')]_vars

\* C16 witness: enter settings, edits by inline color-sets the last of which
\* set the text color to fff, enter settings again: the temporary text color
\* is the permanent one, not fff.
C16_Witness ==
    \E userID \in Users :
        /\ TrailOf(userID).stage = "reentered"
        /\ TrailOf(userID).edits = "more"
        /\ TrailOf(userID).field = "TextColor"
        /\ TrailOf(userID).value = <<"f","f","f">>
        /\ event.sender = userID /\ event.endpoint \in EnterEndpoints
        /\ InSettings(userID)
        /\ Has(tempUserSettingsStore, userID) /\ Has(userSettingsStore, userID)
        /\ tempUserSettingsStore[userID] = userSettingsStore[userID]
        /\ tempUserSettingsStore[userID].TextColor # <<"f","f","f">>

\* ------------------------------------------------ the validator on its own
\* The strings isValidHexColor is applied to: every string of at most
\* MaxColorLen characters over a delimiter, a digit, a lower case and an upper
\* case hexadecimal letter and a letter that is no hexadecimal digit.
MaxColorLen == 7

ValidatorAlphabet == {"#", "9", "a", "F", "g"}

ValidatorInputs ==
    UNION { [1..n -> ValidatorAlphabet] : n \in 0..MaxColorLen }

InitValidator ==
    /\ userSettingsStore = EmptyMap
    /\ tempUserSettingsStore = EmptyMap
    /\ userInSettingsMode = EmptyMap
    /\ userWaitingFor = EmptyMap
    /\ event = [endpoint |-> "", sender |-> 0, text |-> <<>>]
    /\ sent = <<>>
    /\ httpRequests = <<>>
    /\ settingsAtEntry = EmptyMap
    /\ trail = EmptyMap
    /\ probe \in {[kind |-> "argument", input |-> hex] : hex \in ValidatorInputs}
    /\ running = NoneRunning
    /\ process = Serving
    /\ metrics = initMetrics

\* one call of isValidHexColor: it returns a bool and writes nothing
Validate ==
    /\ probe.kind = "argument"
    /\ probe' = [kind   |-> "returned",
                 input  |-> probe.input,
                 result |-> isValidHexColor(probe.input)]
    /\ UNCHANGED <<userSettingsStore, tempUserSettingsStore, userInSettingsMode,
                   userWaitingFor, event, sent, httpRequests, settingsAtEntry,
                   trail, running, process, metrics>>

SpecValidator == InitValidator /\ [][Validate]_vars

\* C17: for every string, isValidHexColor returns (and writes nothing): it
\* returns TRUE exactly if the string, without one leading '#' if it has
\* one, is 3 or 6 characters long and each character is one of 0-9, a-f,
\* A-F; upper and lower case are treated alike.
C17_ValidatorDecides ==
    (probe.kind = "returned")
    => (/\ probe.result \in BOOLEAN
        /\ probe.result = WellFormedColor(probe.input)
        /\ probe.result = WellFormedColor(ToLower(probe.input))
        /\ stores = <<EmptyMap, EmptyMap, EmptyMap, EmptyMap>>)

\* C17 witness: the validator has accepted #9aF (mixed case behind one '#')
\* and the stores are as before the call.
C17_Witness ==
    /\ probe.kind = "returned"
    /\ probe.input = <<"#","9","a","F">>
    /\ probe.result = TRUE
    /\ stores = <<EmptyMap, EmptyMap, EmptyMap, EmptyMap>>

\* --------------------------------------- one image request on its own
\* generateAndSendImage for a new user, under each combination of what the
\* image API and Telegram may do.
InitOutcome ==
    /\ userSettingsStore = EmptyMap
    /\ tempUserSettingsStore = EmptyMap
    /\ userInSettingsMode = EmptyMap
    /\ userWaitingFor = EmptyMap
    /\ event = [endpoint |-> "", sender |-> 0, text |-> <<>>]
    /\ sent = <<>>
    /\ httpRequests = <<>>
    /\ settingsAtEntry = EmptyMap
    /\ trail = EmptyMap
    /\ probe \in {[kind |-> "conditions", api |-> api] : api \in ApiConditions}
    /\ running = NoneRunning
    /\ process = Serving
    /\ metrics = initMetrics

Generate(userID) ==
    /\ probe.kind = "conditions"
    /\ generateAndSendImage(Context(userID, <<"h","e","l","l","o">>), probe.api)
    /\ event' = [endpoint |-> "OnText", sender |-> userID,
                 text |-> <<"h","e","l","l","o">>]
    /\ probe' = [kind |-> "outcome", api |-> probe.api]
    /\ UNCHANGED <<settingsAtEntry, trail, running, process, metrics>>

NextOutcome == \E userID \in Users : Generate(userID)

SpecOutcome == InitOutcome /\ [][NextOutcome]_vars

\* C19: whatever the combination of conditions, the user is told the first
\* that holds of: the request could not be built, the transport failed, the
\* HTTP status is not 200, the body could not be decoded, the decoded status
\* is not "OK", the direct link is empty; the photo is sent only if none
\* holds.
C19_FirstMatchingOutcome ==
    (probe.kind = "outcome")
    => LET a == probe.api
           construct == a.reqErr
           transport == a.doErr
           status    == a.statusCode # 200
           body      == a.decodeErr
           notOK     == a.Status # "OK"
           noLink    == a.DirectLink = ""
       IN  /\ sent # <<>>
           /\ construct
                => sent[1].msg = "Failed to generate image: could not create request."
           /\ (~construct /\ transport)
                => sent[1].msg = "Failed to generate image: network error or service unavailable."
           /\ (~construct /\ ~transport /\ status)
                => (/\ sent[1].msg = "Failed to generate image: service returned error"
                    /\ sent[1].code = a.statusCode)
           /\ (~construct /\ ~transport /\ ~status /\ body)
                => sent[1].msg = "Failed to process response from image service."
           /\ (~construct /\ ~transport /\ ~status /\ ~body /\ notOK)
                => (/\ sent[1].msg = "Failed to generate image."
                    /\ sent[1].serviceMessage = a.Message)
           /\ (~construct /\ ~transport /\ ~status /\ ~body /\ ~notOK /\ noLink)
                => sent[1].msg = "Image service returned success but did not provide an image link."
           /\ (sent[1].msg = "photo")
                <=> ~(construct \/ transport \/ status \/ body \/ notOK \/ noLink)

\* C19 witness: a response with status 500 and a body that cannot be decoded
\* has been reported as the status error.
C19_Witness ==
    /\ probe.kind = "outcome"
    /\ ~probe.api.reqErr /\ ~probe.api.doErr
    /\ probe.api.statusCode = 500
    /\ probe.api.decodeErr
    /\ Len(sent) = 1
    /\ sent[1].msg = "Failed to generate image: service returned error"
    /\ sent[1].code = 500

\* ------------------------------------- missing temporary settings
\* The handlers started in a state that settings mode should exclude: the
\* user's mode is InSettings and the temporary record is missing. (Two
\* handlers of one user can leave it behind: exitSettingsMode of a cancel
\* clears the mode, handleSettingsEnter runs, exitSettingsMode deletes the
\* record.) The user's saved settings are the default or an edited record.
FaultSettings ==
    { DefaultUserSettings,
      [TextColor |-> <<"f","f","f">>,
       BgColor   |-> <<"1","A","2","b","3","c">>] }

InitFault ==
    \E saved \in [Users -> FaultSettings] :
        /\ userSettingsStore = saved
        /\ tempUserSettingsStore = EmptyMap
        /\ userInSettingsMode = [userID \in Users |-> TRUE]
        /\ userWaitingFor = [userID \in Users |-> ""]
        /\ event = [endpoint |-> "", sender |-> 0, text |-> <<>>]
        /\ sent = <<>>
        /\ httpRequests = <<>>
        /\ settingsAtEntry = saved
        /\ trail = EmptyMap
        /\ probe = NoProbe
        /\ running = NoneRunning
        /\ process = Serving
        /\ metrics = initMetrics

SpecFault == InitFault /\ [][Next]_vars

\* the replies that report an internal error
InternalErrorReplies ==
    { "An internal error occurred while saving",
      "An internal state error occurred",
      "A state error occurred" }

\* the step handles, for a user without temporary settings, a save or a
\* color-set with a well-formed inline value in settings mode, or a
\* well-formed free-text color while a field is awaited
HandlesWithoutTemp(userID) ==
    /\ event'.sender = userID
    /\ ~Has(tempUserSettingsStore, userID)
    /\ \/ event'.endpoint \in SaveEndpoints /\ InSettings(userID)
       \/ /\ event'.endpoint \in ColorEndpoints /\ InSettings(userID)
          /\ Len(Fields(event'.text)) >= 2
          /\ WellFormedColor(Fields(event'.text)[2])
       \/ /\ event'.endpoint = "OnText" /\ Pending(userID) # ""
          /\ WellFormedColor(event'.text)

\* C12: a save, a color-set with a well-formed inline value, or a well-formed
\* free-text color for an awaited field, handled for a user whose temporary
\* settings are missing, ends with the mode Idle, nothing awaited, no
\* temporary settings and the permanent settings unchanged, and with one
\* reply, which reports an internal error; the user's next event is handled
\* and answered as usual (entering settings starts a session again).
C12_MissingTempRecovered ==
    [][\A userID \in Users :
          /\ HandlesWithoutTemp(userID)
                => (/\ ~InSettings(userID)'
                    /\ Pending(userID)' = ""
                    /\ ~Has(tempUserSettingsStore', userID)
                    /\ userSettingsStore' = userSettingsStore
                    /\ Len(sent') = 1
                    /\ sent'[1].to = userID
                    /\ sent'[1].msg \in InternalErrorReplies
                    /\ sent'[1].markup = "mainMenuMarkup"
                    /\ httpRequests' = <<>>)
          /\ (/\ sent # <<>> /\ sent[1].msg \in InternalErrorReplies
              /\ event.sender = userID /\ event'.sender = userID)
                => (/\ sent' # <<>>
                    /\ event'.endpoint \in EnterEndpoints
                          => (/\ InSettings(userID)'
                              /\ Has(tempUserSettingsStore', userID)
                              /\ tempUserSettingsStore'[userID] = SavedSettings(userID)))
      ]_vars

\* C12 witness: a well-formed free-text color for the awaited text color of
\* a user without temporary settings has been answered by the state error,
\* and the user is Idle with the saved settings of before.
C12_Witness ==
    \E userID \in Users :
        /\ event.sender = userID /\ event.endpoint = "OnText"
        /\ event.text = <<"#","1","A","2","b","3","c">>
        /\ sent = <<[to |-> userID, msg |-> "A state error occurred",
                     markup |-> "mainMenuMarkup"]>>
        /\ Has(userInSettingsMode, userID) /\ ~InSettings(userID)
        /\ Pending(userID) = ""
        /\ ~Has(tempUserSettingsStore, userID)
        /\ Has(userSettingsStore, userID)
        /\ userSettingsStore[userID].TextColor = <<"f","f","f">>

\* --------------------------------------------- handlers step by step
\* The handlers as the code runs them: one step per operation on a sync.Map
\* (Load, Store, LoadOrStore, Delete), one per c.Send and one for the exchange
\* with the image API, the steps of the invocations in progress interleaved.
\* A slot of running holds the position pc of one invocation, its tele.Context
\* c, and the local variables it has loaded: waitingFor, the settings
\* (currentSettings, tempSettings or savedSettings) and the reply to send.
StepUpdates ==
    { [endpoint |-> "/start", text |-> CmdStart],
      [endpoint |-> "/settings", text |-> CmdSettings],
      [endpoint |-> "/tx_color", text |-> CmdTxColor],
      [endpoint |-> "/tx_color", text |-> CmdTxColor \o <<" ","f","f","f">>],
      [endpoint |-> "/bg_color", text |-> CmdBgColor \o <<" ","f","f","f">>],
      [endpoint |-> "/save_settings", text |-> CmdSaveSettings],
      [endpoint |-> "/cancel_settings", text |-> CmdCancelSettings],
      [endpoint |-> "OnText", text |-> <<"f","f","f">>],
      [endpoint |-> "OnText", text |-> <<"h","e","l","l","o">>] }

\* What the image API does with the request of a handler run step by step:
\* it sends the image, or the transport fails.
StepApiOutcomes ==
    { a \in ApiOutcomes :
        /\ ~a.reqErr /\ a.statusCode = 200 /\ ~a.decodeErr
        /\ a.Status = "OK" /\ a.Message = "" /\ ~a.sendErr
        /\ a.doErr \/ a.DirectLink = "link" }

\* the first operation of the handler registered for the endpoint
FirstStep(endpoint) ==
    CASE endpoint = "/start" -> "exit_mode"
      [] endpoint = "/settings" -> "enter_load"
      [] endpoint \in {"/tx_color", "/bg_color"} -> "color_mode"
      [] endpoint = "/save_settings" -> "save_mode"
      [] endpoint = "/cancel_settings" -> "cancel_mode"
      [] endpoint = "OnText" -> "text_waiting"

\* what a step of a handler other than a c.Send leaves alone
quiet == <<event, sent, httpRequests, settingsAtEntry, trail, probe, process,
           metrics>>

\* An update arrives and its handler is started, whatever other handlers are
\* in progress (of the free slots, the first is taken).
Receive(slot) ==
    /\ running[slot].pc = "returned"
    /\ \A other \in Slots : other < slot => running[other].pc # "returned"
    /\ \E userID \in Users, update \in StepUpdates :
          running' =
             [running EXCEPT ![slot] =
                [pc         |-> FirstStep(update.endpoint),
                 endpoint   |-> update.endpoint,
                 c          |-> Context(userID, update.text),
                 waitingFor |-> "",
                 settings   |-> NoSettings,
                 reply      |-> IF update.endpoint = "/start"
                                THEN Reply(Context(userID, update.text),
                                           "Hello", "mainMenuMarkup")
                                ELSE NoReply]]
    /\ UNCHANGED stores
    /\ UNCHANGED quiet

\* StepExit whose last step empties the temporary settings of every user
StepExit_ClearsEveryone(slot) ==
    LET r == running[slot]
        userID == r.c.sender
    IN  /\ r.pc \in {"exit_mode", "exit_waiting", "exit_temp"}
        /\ userInSettingsMode' =
              IF r.pc = "exit_mode"
              THEN Store(userInSettingsMode, userID, FALSE)
              ELSE userInSettingsMode
        /\ userWaitingFor' =
              IF r.pc = "exit_waiting"
              THEN Store(userWaitingFor, userID, "")
              ELSE userWaitingFor
        /\ tempUserSettingsStore' =
              IF r.pc = "exit_temp"
              THEN EmptyMap
              ELSE tempUserSettingsStore
        /\ UNCHANGED userSettingsStore
        /\ running' =
              [running EXCEPT ![slot].pc =
                  CASE r.pc = "exit_mode" -> "exit_waiting"
                    [] r.pc = "exit_waiting" -> "exit_temp"
                    [] r.pc = "exit_temp" -> "send"]
        /\ UNCHANGED quiet

\* StepExit that leaves the awaited field as it is
StepExit_KeepsWaiting(slot) ==
    LET r == running[slot]
        userID == r.c.sender
    IN  /\ r.pc \in {"exit_mode", "exit_waiting", "exit_temp"}
        /\ userInSettingsMode' =
              IF r.pc = "exit_mode"
              THEN Store(userInSettingsMode, userID, FALSE)
              ELSE userInSettingsMode
        /\ UNCHANGED userWaitingFor
        /\ tempUserSettingsStore' =
              IF r.pc = "exit_temp"
              THEN Delete(tempUserSettingsStore, userID)
              ELSE tempUserSettingsStore
        /\ UNCHANGED userSettingsStore
        /\ running' =
              [running EXCEPT ![slot].pc =
                  CASE r.pc = "exit_mode" -> "exit_waiting"
                    [] r.pc = "exit_waiting" -> "exit_temp"
                    [] r.pc = "exit_temp" -> "send"]
        /\ UNCHANGED quiet

\* exitSettingsMode, one Store or Delete at a time
StepExit(slot) ==
    LET r == running[slot]
        userID == r.c.sender
    IN  /\ r.pc \in {"exit_mode", "exit_waiting", "exit_temp"}
        /\ userInSettingsMode' =
              IF r.pc = "exit_mode"
              THEN Store(userInSettingsMode, userID, FALSE)
              ELSE userInSettingsMode
        /\ userWaitingFor' =
              IF r.pc = "exit_waiting"
              THEN Store(userWaitingFor, userID, "")
              ELSE userWaitingFor
        /\ tempUserSettingsStore' =
              IF r.pc = "exit_temp"
              THEN Delete(tempUserSettingsStore, userID)
              ELSE tempUserSettingsStore
        /\ UNCHANGED userSettingsStore
        /\ running' =
              [running EXCEPT ![slot].pc =
                  CASE r.pc = "exit_mode" -> "exit_waiting"
                    [] r.pc = "exit_waiting" -> "exit_temp"
                    [] r.pc = "exit_temp" -> "send"]
        /\ UNCHANGED quiet

\* StepSettingsEnter that sets the mode before it stores the temporary
\* settings
StepSettingsEnter_ModeFirst(slot) ==
    LET r == running[slot]
        senderID == r.c.sender
        currentSettings ==
            LoadOrStoreValue(userSettingsStore, senderID, DefaultUserSettings)
    IN  /\ r.pc \in {"enter_load", "enter_temp", "enter_mode", "enter_waiting"}
        /\ userSettingsStore' =
              IF r.pc = "enter_load"
              THEN LoadOrStoreMap(userSettingsStore, senderID, DefaultUserSettings)
              ELSE userSettingsStore
        /\ tempUserSettingsStore' =
              IF r.pc = "enter_mode"
              THEN Store(tempUserSettingsStore, senderID, r.settings)
              ELSE tempUserSettingsStore
        /\ userInSettingsMode' =
              IF r.pc = "enter_temp"
              THEN Store(userInSettingsMode, senderID, TRUE)
              ELSE userInSettingsMode
        /\ userWaitingFor' =
              IF r.pc = "enter_waiting"
              THEN Store(userWaitingFor, senderID, "")
              ELSE userWaitingFor
        /\ running' =
              [running EXCEPT ![slot] =
                  CASE r.pc = "enter_load" ->
                          [r EXCEPT !.pc = "enter_temp", !.settings = currentSettings]
                    [] r.pc = "enter_temp" -> [r EXCEPT !.pc = "enter_mode"]
                    [] r.pc = "enter_mode" -> [r EXCEPT !.pc = "enter_waiting"]
                    [] r.pc = "enter_waiting" ->
                          [r EXCEPT !.pc = "send",
                                    !.reply = [to |-> senderID,
                                               msg |-> "You are now in settings mode",
                                               TextColor |-> r.settings.TextColor,
                                               BgColor |-> r.settings.BgColor,
                                               markup |-> "settingsMenuMarkup"]]]
        /\ UNCHANGED quiet

\* handleSettingsEnter: LoadOrStore, then three Stores
StepSettingsEnter(slot) ==
    LET r == running[slot]
        senderID == r.c.sender
        currentSettings ==
            LoadOrStoreValue(userSettingsStore, senderID, DefaultUserSettings)
    IN  /\ r.pc \in {"enter_load", "enter_temp", "enter_mode", "enter_waiting"}
        /\ userSettingsStore' =
              IF r.pc = "enter_load"
              THEN LoadOrStoreMap(userSettingsStore, senderID, DefaultUserSettings)
              ELSE userSettingsStore
        /\ tempUserSettingsStore' =
              IF r.pc = "enter_temp"
              THEN Store(tempUserSettingsStore, senderID, r.settings)
              ELSE tempUserSettingsStore
        /\ userInSettingsMode' =
              IF r.pc = "enter_mode"
              THEN Store(userInSettingsMode, senderID, TRUE)
              ELSE userInSettingsMode
        /\ userWaitingFor' =
              IF r.pc = "enter_waiting"
              THEN Store(userWaitingFor, senderID, "")
              ELSE userWaitingFor
        /\ running' =
              [running EXCEPT ![slot] =
                  CASE r.pc = "enter_load" ->
                          [r EXCEPT !.pc = "enter_temp", !.settings = currentSettings]
                    [] r.pc = "enter_temp" -> [r EXCEPT !.pc = "enter_mode"]
                    [] r.pc = "enter_mode" -> [r EXCEPT !.pc = "enter_waiting"]
                    [] r.pc = "enter_waiting" ->
                          [r EXCEPT !.pc = "send",
                                    !.reply = [to |-> senderID,
                                               msg |-> "You are now in settings mode",
                                               TextColor |-> r.settings.TextColor,
                                               BgColor |-> r.settings.BgColor,
                                               markup |-> "settingsMenuMarkup"]]]
        /\ UNCHANGED quiet

\* handleSetColor: the mode is loaded; then the awaited field is stored, or
\* the temporary settings are loaded, stored with the field updated and the
\* awaited field is cleared
StepSetColor(slot) ==
    LET r == running[slot]
        senderID == r.c.sender
        parts == Fields(r.c.text)
        commandName == parts[1]
        settingType == SettingTypeOf(commandName)
        colorValue == TrimPrefix(parts[2], Hash)
    IN  /\ r.pc \in {"color_mode", "color_load", "color_store", "color_clear",
                     "color_wait"}
        /\ tempUserSettingsStore' =
              IF r.pc = "color_store"
              THEN Store(tempUserSettingsStore, senderID, r.settings)
              ELSE tempUserSettingsStore
        /\ userWaitingFor' =
              IF r.pc = "color_clear"
              THEN Store(userWaitingFor, senderID, "")
              ELSE IF r.pc = "color_wait"
              THEN Store(userWaitingFor, senderID, settingType)
              ELSE userWaitingFor
        /\ UNCHANGED <<userSettingsStore, userInSettingsMode>>
        /\ running' =
              [running EXCEPT ![slot] =
                  CASE r.pc = "color_mode" ->
                          IF ~isUserInSettingsMode(senderID)
                          THEN [r EXCEPT !.pc = "send",
                                         !.reply = Reply(r.c, "This command is only available in settings mode",
                                                         "mainMenuMarkup")]
                          ELSE IF settingType = ""
                          THEN [r EXCEPT !.pc = "send"]
                          ELSE IF Len(parts) >= 2
                          THEN IF ~isValidHexColor(colorValue)
                               THEN [r EXCEPT !.pc = "send",
                                              !.reply = [to |-> senderID,
                                                         msg |-> "doesn't look like a valid HEX color",
                                                         value |-> colorValue,
                                                         markup |-> "settingsMenuMarkup"]]
                               ELSE [r EXCEPT !.pc = "color_load"]
                          ELSE [r EXCEPT !.pc = "color_wait"]
                    [] r.pc = "color_load" ->
                          IF ~Has(tempUserSettingsStore, senderID)
                          THEN [r EXCEPT !.pc = "exit_mode",
                                         !.reply = Reply(r.c, "An internal state error occurred",
                                                         "mainMenuMarkup")]
                          ELSE [r EXCEPT !.pc = "color_store",
                                         !.settings =
                                            UpdateColorField(tempUserSettingsStore[senderID],
                                                             settingType, colorValue)]
                    [] r.pc = "color_store" -> [r EXCEPT !.pc = "color_clear"]
                    [] r.pc = "color_clear" ->
                          [r EXCEPT !.pc = "send",
                                    !.reply = [to |-> senderID, msg |-> "Temporarily set",
                                               settingType |-> settingType,
                                               value |-> colorValue,
                                               markup |-> "settingsMenuMarkup"]]
                    [] r.pc = "color_wait" ->
                          [r EXCEPT !.pc = "send",
                                    !.reply = [to |-> senderID,
                                               msg |-> "Please send the desired color",
                                               settingType |-> settingType,
                                               markup |-> "settingsMenuMarkup"]]]
        /\ UNCHANGED quiet

\* StepSettingsSave that deletes the temporary settings as soon as it has
\* loaded them, before it stores them as permanent
StepSettingsSave_ClearsFirst(slot) ==
    LET r == running[slot]
        senderID == r.c.sender
    IN  /\ r.pc \in {"save_mode", "save_load", "save_store"}
        /\ userSettingsStore' =
              IF r.pc = "save_store"
              THEN Store(userSettingsStore, senderID, r.settings)
              ELSE userSettingsStore
        /\ tempUserSettingsStore' =
              IF r.pc = "save_load"
              THEN Delete(tempUserSettingsStore, senderID)
              ELSE tempUserSettingsStore
        /\ UNCHANGED <<userInSettingsMode, userWaitingFor>>
        /\ running' =
              [running EXCEPT ![slot] =
                  CASE r.pc = "save_mode" ->
                          IF ~isUserInSettingsMode(senderID)
                          THEN [r EXCEPT !.pc = "send",
                                         !.reply = Reply(r.c, "You are not in settings mode.",
                                                         "mainMenuMarkup")]
                          ELSE [r EXCEPT !.pc = "save_load"]
                    [] r.pc = "save_load" ->
                          IF ~Has(tempUserSettingsStore, senderID)
                          THEN [r EXCEPT !.pc = "exit_mode",
                                         !.reply = Reply(r.c, "An internal error occurred while saving",
                                                         "mainMenuMarkup")]
                          ELSE [r EXCEPT !.pc = "save_store",
                                         !.settings = tempUserSettingsStore[senderID]]
                    [] r.pc = "save_store" ->
                          [r EXCEPT !.pc = "exit_mode",
                                    !.reply = Reply(r.c, "Settings saved successfully!",
                                                    "mainMenuMarkup")]]
        /\ UNCHANGED quiet

\* handleSettingsSave: the mode is loaded, the temporary settings are loaded,
\* they are stored as permanent; exitSettingsMode follows
StepSettingsSave(slot) ==
    LET r == running[slot]
        senderID == r.c.sender
    IN  /\ r.pc \in {"save_mode", "save_load", "save_store"}
        /\ userSettingsStore' =
              IF r.pc = "save_store"
              THEN Store(userSettingsStore, senderID, r.settings)
              ELSE userSettingsStore
        /\ UNCHANGED <<tempUserSettingsStore, userInSettingsMode, userWaitingFor>>
        /\ running' =
              [running EXCEPT ![slot] =
                  CASE r.pc = "save_mode" ->
                          IF ~isUserInSettingsMode(senderID)
                          THEN [r EXCEPT !.pc = "send",
                                         !.reply = Reply(r.c, "You are not in settings mode.",
                                                         "mainMenuMarkup")]
                          ELSE [r EXCEPT !.pc = "save_load"]
                    [] r.pc = "save_load" ->
                          IF ~Has(tempUserSettingsStore, senderID)
                          THEN [r EXCEPT !.pc = "exit_mode",
                                         !.reply = Reply(r.c, "An internal error occurred while saving",
                                                         "mainMenuMarkup")]
                          ELSE [r EXCEPT !.pc = "save_store",
                                         !.settings = tempUserSettingsStore[senderID]]
                    [] r.pc = "save_store" ->
                          [r EXCEPT !.pc = "exit_mode",
                                    !.reply = Reply(r.c, "Settings saved successfully!",
                                                    "mainMenuMarkup")]]
        /\ UNCHANGED quiet

\* handleSettingsCancel: the mode is loaded; exitSettingsMode follows
StepSettingsCancel(slot) ==
    LET r == running[slot]
        senderID == r.c.sender
    IN  /\ r.pc = "cancel_mode"
        /\ UNCHANGED stores
        /\ running' =
              [running EXCEPT ![slot] =
                  IF ~isUserInSettingsMode(senderID)
                  THEN [r EXCEPT !.pc = "send",
                                 !.reply = Reply(r.c, "You are not currently in settings mode.",
                                                 "mainMenuMarkup")]
                  ELSE [r EXCEPT !.pc = "exit_mode",
                                 !.reply = Reply(r.c, "Settings mode cancelled",
                                                 "mainMenuMarkup")]]
        /\ UNCHANGED quiet

\* handleTextInput: the awaited field is loaded; then the temporary settings
\* are loaded, stored with the field updated and the awaited field is
\* cleared, or the mode is loaded
StepTextInput(slot) ==
    LET r == running[slot]
        senderID == r.c.sender
        text == r.c.text
        userIsWaiting == Has(userWaitingFor, senderID)
        waitingFor == userWaitingFor[senderID]
        colorValue == TrimPrefix(text, Hash)
    IN  /\ r.pc \in {"text_waiting", "text_load", "text_store", "text_clear",
                     "text_mode"}
        /\ tempUserSettingsStore' =
              IF r.pc = "text_store"
              THEN Store(tempUserSettingsStore, senderID, r.settings)
              ELSE tempUserSettingsStore
        /\ userWaitingFor' =
              IF r.pc = "text_clear"
              THEN Store(userWaitingFor, senderID, "")
              ELSE userWaitingFor
        /\ UNCHANGED <<userSettingsStore, userInSettingsMode>>
        /\ running' =
              [running EXCEPT ![slot] =
                  CASE r.pc = "text_waiting" ->
                          IF userIsWaiting /\ waitingFor \in STRING /\ waitingFor # ""
                          THEN IF ~isValidHexColor(colorValue)
                               THEN [r EXCEPT !.pc = "send",
                                              !.reply = [to |-> senderID,
                                                         msg |-> "doesn't look like a valid HEX color",
                                                         value |-> text,
                                                         settingType |-> waitingFor,
                                                         markup |-> "settingsMenuMarkup"]]
                               ELSE [r EXCEPT !.pc = "text_load",
                                              !.waitingFor = waitingFor]
                          ELSE [r EXCEPT !.pc = "text_mode"]
                    [] r.pc = "text_load" ->
                          IF ~Has(tempUserSettingsStore, senderID)
                          THEN [r EXCEPT !.pc = "exit_mode",
                                         !.reply = Reply(r.c, "A state error occurred",
                                                         "mainMenuMarkup")]
                          ELSE [r EXCEPT !.pc = "text_store",
                                         !.settings =
                                            UpdateWaitedField(tempUserSettingsStore[senderID],
                                                              r.waitingFor, colorValue)]
                    [] r.pc = "text_store" -> [r EXCEPT !.pc = "text_clear"]
                    [] r.pc = "text_clear" ->
                          [r EXCEPT !.pc = "send",
                                    !.reply = [to |-> senderID, msg |-> "Temporarily set",
                                               settingType |-> r.waitingFor,
                                               value |-> colorValue,
                                               markup |-> "settingsMenuMarkup"]]
                    [] r.pc = "text_mode" ->
                          IF isUserInSettingsMode(senderID)
                          THEN [r EXCEPT !.pc = "send",
                                         !.reply = Reply(r.c, "Please use the commands",
                                                         "settingsMenuMarkup")]
                          ELSE [r EXCEPT !.pc = "gen_load"]]
        /\ UNCHANGED quiet

\* generateAndSendImage: the LoadOrStore of the user's settings
StepGenerate(slot) ==
    LET r == running[slot]
        senderID == r.c.sender
        currentSettings ==
            LoadOrStoreValue(userSettingsStore, senderID, DefaultUserSettings)
    IN  /\ r.pc = "gen_load"
        /\ userSettingsStore' =
              LoadOrStoreMap(userSettingsStore, senderID, DefaultUserSettings)
        /\ UNCHANGED <<tempUserSettingsStore, userInSettingsMode, userWaitingFor>>
        /\ running' =
              [running EXCEPT ![slot] =
                  [r EXCEPT !.pc = "gen_do", !.settings = currentSettings]]
        /\ UNCHANGED quiet

\* StepRequest with an http.Client that has no Timeout: client.Do returns
\* only when the image API answers
StepRequest_NeverGivesUp(slot) ==
    LET r == running[slot]
    IN  /\ r.pc = "gen_do"
        /\ \E api \in {a \in StepApiOutcomes : ~a.doErr} :
              /\ httpRequests' = ImageRequests(api, ImageURL(r.settings, r.c.text))
              /\ sent' = ImageReplies(r.c, api)
        /\ event' = [endpoint |-> r.endpoint, sender |-> r.c.sender, text |-> r.c.text]
        /\ running' = [running EXCEPT ![slot] = Returned]
        /\ UNCHANGED stores
        /\ UNCHANGED <<settingsAtEntry, trail, probe, process, metrics>>

\* generateAndSendImage: the exchange with the image API and the replies
StepRequest(slot) ==
    LET r == running[slot]
    IN  /\ r.pc = "gen_do"
        /\ \E api \in StepApiOutcomes :
              /\ httpRequests' = ImageRequests(api, ImageURL(r.settings, r.c.text))
              /\ sent' = ImageReplies(r.c, api)
        /\ event' = [endpoint |-> r.endpoint, sender |-> r.c.sender, text |-> r.c.text]
        /\ running' = [running EXCEPT ![slot] = Returned]
        /\ UNCHANGED stores
        /\ UNCHANGED <<settingsAtEntry, trail, probe, process, metrics>>

\* StepSend that waits while any handler waits for the image API
StepSend_WaitsForImage(slot) ==
    LET r == running[slot]
    IN  /\ r.pc = "send"
        /\ \A other \in Slots : running[other].pc # "gen_do"
        /\ sent' = IF r.reply.msg = "" THEN <<>> ELSE <<r.reply>>
        /\ httpRequests' = <<>>
        /\ event' = [endpoint |-> r.endpoint, sender |-> r.c.sender, text |-> r.c.text]
        /\ running' = [running EXCEPT ![slot] = Returned]
        /\ UNCHANGED stores
        /\ UNCHANGED <<settingsAtEntry, trail, probe, process, metrics>>

\* return c.Send(...): the reply of the handler, which returns
StepSend(slot) ==
    LET r == running[slot]
    IN  /\ r.pc = "send"
        /\ sent' = IF r.reply.msg = "" THEN <<>> ELSE <<r.reply>>
        /\ httpRequests' = <<>>
        /\ event' = [endpoint |-> r.endpoint, sender |-> r.c.sender, text |-> r.c.text]
        /\ running' = [running EXCEPT ![slot] = Returned]
        /\ UNCHANGED stores
        /\ UNCHANGED <<settingsAtEntry, trail, probe, process, metrics>>

NextSteps ==
    \E slot \in Slots :
        \/ Receive(slot)
        \/ StepExit(slot)
        \/ StepSettingsEnter(slot)
        \/ StepSetColor(slot)
        \/ StepSettingsSave(slot)
        \/ StepSettingsCancel(slot)
        \/ StepTextInput(slot)
        \/ StepGenerate(slot)
        \/ StepRequest(slot)
        \/ StepSend(slot)

SpecSteps == Init /\ [][NextSteps]_vars

\* the positions at which a handler looks up the permanent settings
LookupSteps == {"enter_load", "gen_load"}

\* C18: each lookup of the permanent settings (by settings-enter or by image
\* generation), whatever the steps of other handlers it is interleaved with,
\* is one step that returns what the store holds for the user afterwards: for
\* a user without an entry it stores and returns 000000 / FFFFFF, for a user
\* with an entry it returns the entry and leaves the store as it is. So after
\* concurrent first lookups the default is stored and each has returned it.
C18_LookupInsertsDefault ==
    [][\A slot \in Slots :
          (/\ running[slot].pc \in LookupSteps
           /\ running'[slot].pc # running[slot].pc)
          => LET userID == running[slot].c.sender
                 returned == running'[slot].settings
             IN  /\ Has(userSettingsStore', userID)
                 /\ returned = userSettingsStore'[userID]
                 /\ ~Has(userSettingsStore, userID)
                       => (/\ returned = DocumentedDefault
                           /\ userSettingsStore'
                                 = Store(userSettingsStore, userID, DocumentedDefault))
                 /\ Has(userSettingsStore, userID)
                       => (/\ returned = userSettingsStore[userID]
                           /\ userSettingsStore' = userSettingsStore)
                 /\ \A other \in Slots \ {slot} :
                       (/\ running[other].pc \in {"enter_temp", "gen_do"}
                        /\ running[other].c.sender = userID
                        /\ running[other].settings = DocumentedDefault
                        /\ userSettingsStore[userID] = DocumentedDefault)
                       => returned = DocumentedDefault]_vars

\* C18 witness: the first two handlers of a new user, a settings-enter and an
\* image generation, have both looked up the settings before either went on:
\* the default is stored and both hold it.
C18_Witness ==
    \E userID \in Users, enter \in Slots, image \in Slots :
        /\ running[enter].pc = "enter_temp"
        /\ running[image].pc = "gen_do"
        /\ running[enter].c.sender = userID
        /\ running[image].c.sender = userID
        /\ running[enter].settings = DocumentedDefault
        /\ running[image].settings = DocumentedDefault
        /\ userSettingsStore = Store(EmptyMap, userID, DocumentedDefault)
        /\ tempUserSettingsStore = EmptyMap
        /\ userInSettingsMode = EmptyMap
        /\ event.endpoint = ""

\* ---------------------------------------- the lifetime of a permanent entry
\* C28: a user's entry of the permanent settings, once present, is present
\* in every later state: no handled event removes it.
C28_EntryNeverRemoved ==
    [][\A userID \in Users :
          Has(userSettingsStore, userID) => Has(userSettingsStore', userID)]_vars

\* C28 witness: a cancel has ended a later settings session of a user whose
\* entry holds a color saved before; the entry is still there.
C28_Witness ==
    \E userID \in Users :
        /\ event.sender = userID /\ event.endpoint \in CancelEndpoints
        /\ sent # <<>> /\ sent[1].msg = "Settings mode cancelled"
        /\ ~InSettings(userID)
        /\ Has(userSettingsStore, userID)
        /\ userSettingsStore[userID].TextColor = <<"f","f","f">>

\* ------------------------------------------ the writers of the permanent map
\* the settings a lookup of the user's permanent entry yields: the entry, or
\* the documented default where there is none
Saved(userID) ==
    IF Has(userSettingsStore, userID)
    THEN userSettingsStore[userID] ELSE DocumentedDefault

\* C27 as stated: the permanent map is written by no handler but save.
C27_OnlySaveWrites ==
    [][userSettingsStore' # userSettingsStore
          => event'.endpoint \in SaveEndpoints]_vars

\* C27: an existing permanent value is modified by the save transition only,
\* and so is the value a lookup of a user yields. The one other write is the
\* insertion of the default settings for a sender who has no entry, by the
\* lookup of enter-settings and of image generation; start, color-set and
\* cancel never write the map.
C27_OnlySaveChangesSaved ==
    [][/\ \A userID \in Users :
              Saved(userID)' # Saved(userID) => Handles(userID, SaveEndpoints)
       /\ userSettingsStore' # userSettingsStore
              => \/ event'.endpoint \in SaveEndpoints
                 \/ /\ event'.endpoint \in EnterEndpoints \cup {"OnText"}
                    /\ ~Has(userSettingsStore, event'.sender)
                    /\ userSettingsStore' =
                           Store(userSettingsStore, event'.sender,
                                 DocumentedDefault)]_vars

\* C27 witness: the first update of a user was free text; the lookup of
\* image generation has inserted the default entry, and a request was made.
C27_Witness ==
    \E userID \in Users :
        /\ event.sender = userID /\ event.endpoint = "OnText"
        /\ ~Has(userInSettingsMode, userID)
        /\ httpRequests # <<>>
        /\ Has(userSettingsStore, userID)
        /\ userSettingsStore[userID] = DocumentedDefault

\* --------------------------------------- the stores across image generation
\* the step handles free text of userID by image generation: the user is not
\* in settings mode and no field is awaited
GeneratesImage(userID) ==
    /\ Handles(userID, {"OnText"})
    /\ ~InSettings(userID)
    /\ Pending(userID) = ""

\* C22 as stated: image generation leaves all four stores as they were, for
\* every user and every outcome of the request.
C22_NoStoreMutated ==
    [][\A userID \in Users :
          GeneratesImage(userID)
          => /\ userSettingsStore' = userSettingsStore
             /\ tempUserSettingsStore' = tempUserSettingsStore
             /\ userInSettingsMode' = userInSettingsMode
             /\ userWaitingFor' = userWaitingFor]_vars

\* C22: for every outcome of the request, image generation leaves the
\* temporary settings, the mode and the pending store as they were; the
\* permanent store is left as it was for a user who has an entry, and gains
\* the default entry for a user who has none, so that the settings a lookup
\* yields are the same before and after for every user.
C22_OnlyDefaultInserted ==
    [][\A userID \in Users :
          GeneratesImage(userID)
          => /\ tempUserSettingsStore' = tempUserSettingsStore
             /\ userInSettingsMode' = userInSettingsMode
             /\ userWaitingFor' = userWaitingFor
             /\ userSettingsStore' =
                    IF Has(userSettingsStore, userID)
                    THEN userSettingsStore
                    ELSE Store(userSettingsStore, userID, DocumentedDefault)
             /\ \A other \in Users : Saved(other)' = Saved(other)]_vars

\* C22 witness: image generation for a user with saved colors has ended in
\* the report of a transport failure or timeout; the saved colors are there.
C22_Witness ==
    \E userID \in Users :
        /\ event.sender = userID /\ event.endpoint = "OnText"
        /\ event.text = <<"h","e","l","l","o">>
        /\ Len(httpRequests) = 1
        /\ sent[1].msg = "Failed to generate image: network error or service unavailable."
        /\ Has(userSettingsStore, userID)
        /\ userSettingsStore[userID].BgColor = <<"f","f","f">>
        /\ ~InSettings(userID) /\ ~Has(tempUserSettingsStore, userID)

\* ------------------------------------------------- the caption on its own
\* the longest message text the caption is computed for
MaxTextLen == 1030

\* the message texts: of every length up to MaxTextLen, of the digits in
\* turn (one element per byte, as Go's len and slicing count)
DigitAt(i) == <<"0","1","2","3","4","5","6","7","8","9">>[(i % 10) + 1]

CaptionTexts == {[i \in 1..n |-> DigitAt(i)] : n \in 0..MaxTextLen}

InitCaption ==
    /\ userSettingsStore = EmptyMap
    /\ tempUserSettingsStore = EmptyMap
    /\ userInSettingsMode = EmptyMap
    /\ userWaitingFor = EmptyMap
    /\ event = [endpoint |-> "", sender |-> 0, text |-> <<>>]
    /\ sent = <<>>
    /\ httpRequests = <<>>
    /\ settingsAtEntry = EmptyMap
    /\ trail = EmptyMap
    /\ probe \in {[kind |-> "text", input |-> text] : text \in CaptionTexts}
    /\ running = NoneRunning
    /\ process = Serving
    /\ metrics = initMetrics

\* generateAndSendImage builds the caption of the photo for the text
Caption ==
    /\ probe.kind = "text"
    /\ probe' = [kind   |-> "caption",
                 input  |-> probe.input,
                 result |-> CaptionOf(probe.input)]
    /\ UNCHANGED <<userSettingsStore, tempUserSettingsStore, userInSettingsMode,
                   userWaitingFor, event, sent, httpRequests, settingsAtEntry,
                   trail, running, process, metrics>>

SpecCaption == InitCaption /\ [][Caption]_vars

\* the caption in full: the text between "Image for: '" and "'"
FullCaption(text) ==
    <<"I","m","a","g","e"," ","f","o","r",":"," ","'">> \o text \o <<"'">>

\* C23: for every text the caption sent has length at most 1024; a caption
\* of full length at most 1024 is sent as it is, and a longer one is sent as
\* a beginning of the full caption followed by "...".
C23_CaptionBounded ==
    (probe.kind = "caption")
    => LET full == FullCaption(probe.input)
           caption == probe.result
           kept == Len(caption) - 3
       IN  /\ Len(caption) <= 1024
           /\ Len(full) <= 1024 => caption = full
           /\ Len(full) > 1024
              => /\ kept >= 0
                 /\ SubSeq(caption, 1, kept) = SubSeq(full, 1, kept)
                 /\ SubSeq(caption, kept + 1, Len(caption)) = <<".", ".", ".">>

\* C23 witness: the caption of a text of 1012 bytes, one byte too long in
\* full, was cut and ends with "...".
C23_Witness ==
    /\ probe.kind = "caption"
    /\ Len(probe.input) = 1012
    /\ Len(FullCaption(probe.input)) = 1025
    /\ probe.result # FullCaption(probe.input)
    /\ probe.result[Len(probe.result)] = "."

\* ------------------------------------------------------------ the startup
\* The process from the start of kbotCmd: the environment has TELE_TOKEN and
\* IMGBUN_API_KEY set or not (an unset variable reads as ""), the stores are
\* empty and no handler is registered.
InitStartup ==
    /\ userSettingsStore = EmptyMap
    /\ tempUserSettingsStore = EmptyMap
    /\ userInSettingsMode = EmptyMap
    /\ userWaitingFor = EmptyMap
    /\ event = [endpoint |-> "", sender |-> 0, text |-> <<>>]
    /\ sent = <<>>
    /\ httpRequests = <<>>
    /\ settingsAtEntry = EmptyMap
    /\ trail = EmptyMap
    /\ probe = NoProbe
    /\ running = NoneRunning
    /\ process \in {[pc |-> "kbotCmd", TeleToken |-> token,
                     ImgbunAPIKey |-> key, handlers |-> {}] :
                       token \in {"", "TeleToken"},
                       key \in {"", "ImgbunAPIKey"}}
    /\ metrics = initMetrics

\* kbotCmd that checks the bot token only
kbotCmd_ChecksTokenOnly ==
    /\ process.pc = "kbotCmd"
    /\ \E telemetryErr \in BOOLEAN, botErr \in BOOLEAN :
          process' =
             IF process.TeleToken = ""
             THEN [process EXCEPT !.pc = "exited"]
             ELSE IF telemetryErr \/ botErr
             THEN [process EXCEPT !.pc = "exited"]
             ELSE [process EXCEPT !.pc = "serving",
                                  !.handlers = registerHandlers]
    /\ UNCHANGED stores
    /\ UNCHANGED <<event, sent, httpRequests, settingsAtEntry, trail, probe,
                   running, metrics>>

\* kbotCmd: log.Fatal ends the process if a credential is empty, and so do a
\* failure of InitTelemetry and of tele.NewBot; otherwise the handlers are
\* registered and the bot's main loop is started.
kbotCmd ==
    /\ process.pc = "kbotCmd"
    /\ \E telemetryErr \in BOOLEAN, botErr \in BOOLEAN :
          process' =
             IF process.TeleToken = ""
             THEN [process EXCEPT !.pc = "exited"]
             ELSE IF process.ImgbunAPIKey = ""
             THEN [process EXCEPT !.pc = "exited"]
             ELSE IF telemetryErr \/ botErr
             THEN [process EXCEPT !.pc = "exited"]
             ELSE [process EXCEPT !.pc = "serving",
                                  !.handlers = registerHandlers]
    /\ UNCHANGED stores
    /\ UNCHANGED <<event, sent, httpRequests, settingsAtEntry, trail, probe,
                   running, metrics>>

\* kbot.Start: the main loop hands each update to the handler registered for
\* its endpoint
Serve ==
    /\ process.pc = "serving"
    /\ Next
    /\ event'.endpoint \in process.handlers

NextStartup == kbotCmd \/ Serve

SpecStartup == InitStartup /\ [][NextStartup]_vars

\* a credential is empty
CredentialMissing == process.TeleToken = "" \/ process.ImgbunAPIKey = ""

\* C30: if the bot token or the image API key is empty at startup, no
\* handler is ever registered, no event is ever handled and no store is ever
\* written, and the only step the process takes is the one that ends it.
C30_FailFast ==
    /\ [](CredentialMissing
          => /\ process.handlers = {}
             /\ process.pc \in {"kbotCmd", "exited"}
             /\ event.endpoint = ""
             /\ sent = <<>> /\ httpRequests = <<>>
             /\ stores = <<EmptyMap, EmptyMap, EmptyMap, EmptyMap>>)
    /\ [][CredentialMissing => process'.pc = "exited"]_vars

\* C30 witness: the process has ended at startup, with a bot token and
\* without an image API key.
C30_Witness ==
    /\ process.pc = "exited"
    /\ process.TeleToken # ""
    /\ process.ImgbunAPIKey = ""
    /\ process.handlers = {}

\* -------------------------------------- inline and awaited input, compared
\* The users of the specifications with more than one user.
NumPeers == 2

Peers == 1..NumPeers

\* the temporary settings the compared sessions start with
EquivSettings ==
    FaultSettings \cup {[TextColor |-> <<"#","f","f","f">>,
                         BgColor   |-> <<"0","0","0">>]}

\* the color-set commands
ColorCommands ==
    {[endpoint |-> "/tx_color", text |-> CmdTxColor],
     [endpoint |-> "/bg_color", text |-> CmdBgColor]}

\* The handlers are applied to two users who are in one and the same state
\* of a settings session (with a field awaited or none): one user is to
\* send the command with the value inline, the other the command alone and
\* then the value as free text.
InitEquiv ==
    \E saved \in FaultSettings, temp \in EquivSettings,
       waitingFor \in {"", "tx_color", "bg_color"},
       command \in ColorCommands, value \in ColorInputs,
       inline \in Peers :
      \E waiting \in Peers \ {inline} :
        /\ userSettingsStore = [userID \in Peers |-> saved]
        /\ tempUserSettingsStore = [userID \in Peers |-> temp]
        /\ userInSettingsMode = [userID \in Peers |-> TRUE]
        /\ userWaitingFor = [userID \in Peers |-> waitingFor]
        /\ event = [endpoint |-> "", sender |-> 0, text |-> <<>>]
        /\ sent = <<>>
        /\ httpRequests = <<>>
        /\ settingsAtEntry = [userID \in Peers |-> saved]
        /\ trail = EmptyMap
        /\ probe = [kind      |-> "equivalence",
                    command   |-> command,
                    value     |-> value,
                    start     |-> [temp |-> temp, waitingFor |-> waitingFor],
                    inline    |-> inline,
                    inlineAt  |-> "command",
                    waiting   |-> waiting,
                    waitingAt |-> "command"]
        /\ running = NoneRunning
        /\ process = Serving
        /\ metrics = initMetrics

\* the first user sends the command with the value inline
InlineValue ==
    LET text == probe.command.text \o <<" ">> \o probe.value
    IN  /\ probe.kind = "equivalence" /\ probe.inlineAt = "command"
        /\ handleSetColor(Context(probe.inline, text))
        /\ event' = [endpoint |-> probe.command.endpoint,
                     sender |-> probe.inline, text |-> text]
        /\ probe' = [probe EXCEPT !.inlineAt = "done"]
        /\ History(probe.inline)
        /\ UNCHANGED <<trail, running, process, metrics>>

\* the second user sends the command without a value
CommandAlone ==
    /\ probe.kind = "equivalence" /\ probe.waitingAt = "command"
    /\ handleSetColor(Context(probe.waiting, probe.command.text))
    /\ event' = [endpoint |-> probe.command.endpoint,
                 sender |-> probe.waiting, text |-> probe.command.text]
    /\ probe' = [probe EXCEPT !.waitingAt = "value"]
    /\ History(probe.waiting)
    /\ UNCHANGED <<trail, running, process, metrics>>

\* the second user sends the value as free text
AwaitedValue ==
    /\ probe.kind = "equivalence" /\ probe.waitingAt = "value"
    /\ handleTextInput(Context(probe.waiting, probe.value))
    /\ event' = [endpoint |-> "OnText",
                 sender |-> probe.waiting, text |-> probe.value]
    /\ probe' = [probe EXCEPT !.waitingAt = "done"]
    /\ History(probe.waiting)
    /\ UNCHANGED <<trail, running, process, metrics>>

NextEquiv == InlineValue \/ CommandAlone \/ AwaitedValue

SpecEquiv == InitEquiv /\ [][NextEquiv]_vars

\* both users have sent their messages
BothDone ==
    probe.kind = "equivalence"
    /\ probe.inlineAt = "done" /\ probe.waitingAt = "done"

\* the session state of a user: mode, field awaited, temporary settings
SessionOf(userID) ==
    [mode    |-> InSettings(userID),
     pending |-> Pending(userID),
     temp    |-> IF Has(tempUserSettingsStore, userID)
                 THEN tempUserSettingsStore[userID] ELSE NoSettings]

\* C29 as stated: from the same state of a settings session, the command
\* with the value inline, and the command alone followed by the value as
\* free text, end in the same mode, pending field and temporary settings.
C29_SameSession ==
    BothDone => SessionOf(probe.inline) = SessionOf(probe.waiting)

\* C29: from the same state of a settings session, the two ways of giving a
\* whitespace-free value (with leading '#' or without) end in the same mode
\* and the same temporary settings; both accept the value or both reject
\* it. If they accept, both have stored the same string, the value without
\* one leading '#', in the field of the command, and no field is awaited. If
\* they reject, the temporary settings are those of the start, the field of
\* the command is still awaited after the free text, and the pending field
\* is as it was at the start after the inline command.
C29_SameSessionButPending ==
    BothDone =>
        LET a == SessionOf(probe.inline)
            b == SessionOf(probe.waiting)
            field == FieldOf(probe.command.endpoint)
        IN  /\ a.mode = b.mode /\ a.mode = TRUE
            /\ a.temp = b.temp
            /\ \/ /\ b.pending = ""
                  /\ a.pending = ""
                  /\ a.temp = [probe.start.temp EXCEPT
                                  ![field] = StripDelimiter(probe.value)]
               \/ /\ b.pending # ""
                  /\ FieldOf(b.pending) = field
                  /\ a.pending = probe.start.waitingFor
                  /\ a.temp = probe.start.temp

\* C29 witness: both ways have accepted the value ##fff for the background
\* color and stored #fff, in sessions in which the text color was awaited.
C29_Witness ==
    /\ BothDone
    /\ probe.value = <<"#","#","f","f","f">>
    /\ probe.command.endpoint = "/bg_color"
    /\ probe.start.waitingFor = "tx_color"
    /\ SessionOf(probe.inline).temp.BgColor = <<"#","f","f","f">>
    /\ SessionOf(probe.waiting).temp.BgColor = <<"#","f","f","f">>
    /\ SessionOf(probe.waiting).pending = ""

\* --------------------------------------------- the handlers of one user
\* the handler invocation of the slot is in progress
InProgress(slot) == running[slot].pc # "returned"

\* the handler invocation of the slot has made its first access to a store
\* (the first step of every handler is one)
HasBegun(slot) ==
    /\ InProgress(slot)
    /\ running[slot].pc # FirstStep(running[slot].endpoint)

\* C25: the events of one user are handled one after the other: of two
\* handler invocations of one user that are in progress, the one of the
\* later event has not accessed a store, so never have both begun.
C25_OneHandlerPerUser ==
    \A slot \in Slots : \A other \in Slots \ {slot} :
        (/\ InProgress(slot) /\ InProgress(other)
         /\ running[slot].c.sender = running[other].c.sender)
        => ~(HasBegun(slot) /\ HasBegun(other))

\* ------------------------------------------- the handlers of several users
\* The updates of the specification with several users: a settings session
\* in which the text color is asked for and sent as free text, saved or
\* cancelled, and free text outside a session.
PeerUpdates ==
    {[endpoint |-> "/settings", text |-> CmdSettings],
     [endpoint |-> "/tx_color", text |-> CmdTxColor],
     [endpoint |-> "/save_settings", text |-> CmdSaveSettings],
     [endpoint |-> "/cancel_settings", text |-> CmdCancelSettings],
     [endpoint |-> "OnText", text |-> <<"f","f","f">>]}

\* a handler invocation at its start, for an update of the user
Invocation(userID, update) ==
    [pc         |-> FirstStep(update.endpoint),
     endpoint   |-> update.endpoint,
     c          |-> Context(userID, update.text),
     waitingFor |-> "",
     settings   |-> NoSettings,
     reply      |-> IF update.endpoint = "/start"
                    THEN Reply(Context(userID, update.text),
                               "Hello", "mainMenuMarkup")
                    ELSE NoReply]

\* no handler invocation of the user is in progress
Idle(userID) ==
    \A slot \in Slots :
        running[slot].pc # "returned" => running[slot].c.sender # userID

\* An update of a user arrives and its handler is started while handlers of
\* other users are in progress; the updates of one user are handled one
\* after the other.
ReceivePeer(slot) ==
    /\ running[slot].pc = "returned"
    /\ \A other \in Slots : other < slot => running[other].pc # "returned"
    /\ \E userID \in Peers, update \in PeerUpdates :
          /\ Idle(userID)
          /\ running' = [running EXCEPT ![slot] = Invocation(userID, update)]
    /\ UNCHANGED stores
    /\ UNCHANGED quiet

\* The process with several users: a user is new to the process, or is in
\* settings mode without temporary settings (the state the handlers report
\* as an internal state error).
InitPeers ==
    \E faulty \in SUBSET Peers :
        /\ userSettingsStore = [userID \in faulty |-> DefaultUserSettings]
        /\ tempUserSettingsStore = EmptyMap
        /\ userInSettingsMode = [userID \in faulty |-> TRUE]
        /\ userWaitingFor = [userID \in faulty |-> ""]
        /\ event = [endpoint |-> "", sender |-> 0, text |-> <<>>]
        /\ sent = <<>>
        /\ httpRequests = <<>>
        /\ settingsAtEntry = [userID \in faulty |-> DefaultUserSettings]
        /\ trail = EmptyMap
        /\ probe = NoProbe
        /\ running = NoneRunning
        /\ process = Serving
        /\ metrics = initMetrics

NextPeers ==
    \E slot \in Slots :
        \/ ReceivePeer(slot)
        \/ StepExit(slot)
        \/ StepSettingsEnter(slot)
        \/ StepSetColor(slot)
        \/ StepSettingsSave(slot)
        \/ StepSettingsCancel(slot)
        \/ StepTextInput(slot)
        \/ StepGenerate(slot)
        \/ StepRequest(slot)
        \/ StepSend(slot)

SpecPeers == InitPeers /\ [][NextPeers]_vars

\* ------------------------------------------------- a handler step on its own
\* The four stores as one value, and the stores of the current state.
Now ==
    [perm    |-> userSettingsStore,
     temp    |-> tempUserSettingsStore,
     mode    |-> userInSettingsMode,
     waiting |-> userWaitingFor]

\* a map without the entries of all users but one
Only(m, userID) == [x \in (DOMAIN m) \cap {userID} |-> m[x]]

\* the stores without the entries of all users but one: what the stores
\* hold when the user's events are the only ones the process has handled
Alone(S, userID) ==
    [perm    |-> Only(S.perm, userID),
     temp    |-> Only(S.temp, userID),
     mode    |-> Only(S.mode, userID),
     waiting |-> Only(S.waiting, userID)]

\* isUserInSettingsMode on a given mode store
InMode(mode, userID) ==
    IF ~Has(mode, userID)
    THEN FALSE
    ELSE mode[userID] \in BOOLEAN /\ mode[userID]

\* One step of the handler invocation r on the stores S: the stores and the
\* invocation after the step. The steps are those of exitSettingsMode,
\* handleSettingsEnter, handleSetColor, handleSettingsSave,
\* handleSettingsCancel, handleTextInput and generateAndSendImage, one
\* sync.Map operation each.
After(r, S) ==
    LET senderID == r.c.sender
        text == r.c.text
        parts == Fields(text)
        settingType == SettingTypeOf(parts[1])
        inlineValue == TrimPrefix(parts[2], Hash)
        textValue == TrimPrefix(text, Hash)
        saved == LoadOrStoreValue(S.perm, senderID, DefaultUserSettings)
        to(pc) == [S |-> S, r |-> [r EXCEPT !.pc = pc]]
        say(msg, markup) == [r EXCEPT !.pc = "send", !.reply = Reply(r.c, msg, markup)]
        fault(msg) == [r EXCEPT !.pc = "exit_mode",
                                !.reply = Reply(r.c, msg, "mainMenuMarkup")]
    IN  CASE r.pc = "exit_mode" ->
               [S |-> [S EXCEPT !.mode = Store(S.mode, senderID, FALSE)],
                r |-> [r EXCEPT !.pc = "exit_waiting"]]
          [] r.pc = "exit_waiting" ->
               [S |-> [S EXCEPT !.waiting = Store(S.waiting, senderID, "")],
                r |-> [r EXCEPT !.pc = "exit_temp"]]
          [] r.pc = "exit_temp" ->
               [S |-> [S EXCEPT !.temp = Delete(S.temp, senderID)],
                r |-> [r EXCEPT !.pc = "send"]]
          [] r.pc = "enter_load" ->
               [S |-> [S EXCEPT !.perm = LoadOrStoreMap(S.perm, senderID,
                                                        DefaultUserSettings)],
                r |-> [r EXCEPT !.pc = "enter_temp", !.settings = saved]]
          [] r.pc = "enter_temp" ->
               [S |-> [S EXCEPT !.temp = Store(S.temp, senderID, r.settings)],
                r |-> [r EXCEPT !.pc = "enter_mode"]]
          [] r.pc = "enter_mode" ->
               [S |-> [S EXCEPT !.mode = Store(S.mode, senderID, TRUE)],
                r |-> [r EXCEPT !.pc = "enter_waiting"]]
          [] r.pc = "enter_waiting" ->
               [S |-> [S EXCEPT !.waiting = Store(S.waiting, senderID, "")],
                r |-> [r EXCEPT !.pc = "send",
                                !.reply = [to |-> senderID,
                                           msg |-> "You are now in settings mode",
                                           TextColor |-> r.settings.TextColor,
                                           BgColor |-> r.settings.BgColor,
                                           markup |-> "settingsMenuMarkup"]]]
          [] r.pc = "color_mode" ->
               [S |-> S,
                r |-> IF ~InMode(S.mode, senderID)
                      THEN say("This command is only available in settings mode",
                               "mainMenuMarkup")
                      ELSE IF settingType = ""
                      THEN [r EXCEPT !.pc = "send"]
                      ELSE IF Len(parts) >= 2
                      THEN IF ~isValidHexColor(inlineValue)
                           THEN [r EXCEPT !.pc = "send",
                                          !.reply = [to |-> senderID,
                                                     msg |-> "doesn't look like a valid HEX color",
                                                     value |-> inlineValue,
                                                     markup |-> "settingsMenuMarkup"]]
                           ELSE [r EXCEPT !.pc = "color_load"]
                      ELSE [r EXCEPT !.pc = "color_wait"]]
          [] r.pc = "color_load" ->
               [S |-> S,
                r |-> IF ~Has(S.temp, senderID)
                      THEN fault("An internal state error occurred")
                      ELSE [r EXCEPT !.pc = "color_store",
                                     !.settings =
                                        UpdateColorField(S.temp[senderID],
                                                         settingType, inlineValue)]]
          [] r.pc = "color_store" ->
               [S |-> [S EXCEPT !.temp = Store(S.temp, senderID, r.settings)],
                r |-> [r EXCEPT !.pc = "color_clear"]]
          [] r.pc = "color_clear" ->
               [S |-> [S EXCEPT !.waiting = Store(S.waiting, senderID, "")],
                r |-> [r EXCEPT !.pc = "send",
                                !.reply = [to |-> senderID, msg |-> "Temporarily set",
                                           settingType |-> settingType,
                                           value |-> inlineValue,
                                           markup |-> "settingsMenuMarkup"]]]
          [] r.pc = "color_wait" ->
               [S |-> [S EXCEPT !.waiting = Store(S.waiting, senderID, settingType)],
                r |-> [r EXCEPT !.pc = "send",
                                !.reply = [to |-> senderID,
                                           msg |-> "Please send the desired color",
                                           settingType |-> settingType,
                                           markup |-> "settingsMenuMarkup"]]]
          [] r.pc = "save_mode" ->
               [S |-> S,
                r |-> IF ~InMode(S.mode, senderID)
                      THEN say("You are not in settings mode.", "mainMenuMarkup")
                      ELSE [r EXCEPT !.pc = "save_load"]]
          [] r.pc = "save_load" ->
               [S |-> S,
                r |-> IF ~Has(S.temp, senderID)
                      THEN fault("An internal error occurred while saving")
                      ELSE [r EXCEPT !.pc = "save_store",
                                     !.settings = S.temp[senderID]]]
          [] r.pc = "save_store" ->
               [S |-> [S EXCEPT !.perm = Store(S.perm, senderID, r.settings)],
                r |-> fault("Settings saved successfully!")]
          [] r.pc = "cancel_mode" ->
               [S |-> S,
                r |-> IF ~InMode(S.mode, senderID)
                      THEN say("You are not currently in settings mode.",
                               "mainMenuMarkup")
                      ELSE fault("Settings mode cancelled")]
          [] r.pc = "text_waiting" ->
               [S |-> S,
                r |-> IF /\ Has(S.waiting, senderID)
                         /\ S.waiting[senderID] \in STRING
                         /\ S.waiting[senderID] # ""
                      THEN IF ~isValidHexColor(textValue)
                           THEN [r EXCEPT !.pc = "send",
                                          !.reply = [to |-> senderID,
                                                     msg |-> "doesn't look like a valid HEX color",
                                                     value |-> text,
                                                     settingType |-> S.waiting[senderID],
                                                     markup |-> "settingsMenuMarkup"]]
                           ELSE [r EXCEPT !.pc = "text_load",
                                          !.waitingFor = S.waiting[senderID]]
                      ELSE [r EXCEPT !.pc = "text_mode"]]
          [] r.pc = "text_load" ->
               [S |-> S,
                r |-> IF ~Has(S.temp, senderID)
                      THEN fault("A state error occurred")
                      ELSE [r EXCEPT !.pc = "text_store",
                                     !.settings =
                                        UpdateWaitedField(S.temp[senderID],
                                                          r.waitingFor, textValue)]]
          [] r.pc = "text_store" ->
               [S |-> [S EXCEPT !.temp = Store(S.temp, senderID, r.settings)],
                r |-> [r EXCEPT !.pc = "text_clear"]]
          [] r.pc = "text_clear" ->
               [S |-> [S EXCEPT !.waiting = Store(S.waiting, senderID, "")],
                r |-> [r EXCEPT !.pc = "send",
                                !.reply = [to |-> senderID, msg |-> "Temporarily set",
                                           settingType |-> r.waitingFor,
                                           value |-> textValue,
                                           markup |-> "settingsMenuMarkup"]]]
          [] r.pc = "text_mode" ->
               [S |-> S,
                r |-> IF InMode(S.mode, senderID)
                      THEN say("Please use the commands", "settingsMenuMarkup")
                      ELSE [r EXCEPT !.pc = "gen_load"]]
          [] r.pc = "gen_load" ->
               [S |-> [S EXCEPT !.perm = LoadOrStoreMap(S.perm, senderID,
                                                        DefaultUserSettings)],
                r |-> [r EXCEPT !.pc = "gen_do", !.settings = saved]]
          [] OTHER -> [S |-> S, r |-> Returned]

\* the step is one of the handler invocation in the slot
StepOf(slot) ==
    /\ running[slot].pc # "returned"
    /\ running'[slot] # running[slot]

\* C24: every step of a handler of a user, whatever handlers of other users
\* are in progress and whatever path it takes, leaves the entries of every
\* other user in the four stores and the invocations of other users as they
\* were, and changes the user's own entries and the handler's local values
\* exactly as the same step does on stores that hold no entry of any other
\* user. So each user's mode, pending field, temporary and permanent
\* settings are at every moment what the user's own events produce alone.
C24_UsersIsolated ==
    [][\A slot \in Slots :
          StepOf(slot)
          => LET r == running[slot]
                 userID == r.c.sender
                 alone == After(r, Alone(Now, userID))
             IN  /\ \A other \in Peers \ {userID} :
                        Alone(Now', other) = Alone(Now, other)
                 /\ \A other \in Slots \ {slot} :
                        running'[other] = running[other]
                 /\ Alone(Now', userID) = Alone(alone.S, userID)
                 /\ alone.S = Alone(alone.S, userID)
                 /\ running'[slot] = alone.r]_vars

\* C24 witness: a save of one user has found no temporary settings and is
\* leaving settings mode (the error path) while the other user, whose text
\* color is awaited in a settings session, has a handler in progress.
C24_Witness ==
    \E slot \in Slots : \E other \in Slots \ {slot} :
        /\ running[slot].pc = "exit_temp"
        /\ running[slot].reply.msg = "An internal error occurred while saving"
        /\ HasBegun(other)
        /\ running[other].c.sender # running[slot].c.sender
        /\ InSettings(running[other].c.sender)
        /\ Pending(running[other].c.sender) = "tx_color"
        /\ Has(tempUserSettingsStore, running[other].c.sender)

\* ------------------------------------------------ handlers that must end
\* The updates of the specifications with fairness: a settings session
\* entered and cancelled, and free text.
LiveEndpoints == {"/settings", "/cancel_settings", "OnText"}

ReceiveLive(slot) ==
    /\ ReceivePeer(slot)
    /\ running'[slot].endpoint \in LiveEndpoints

NextLive ==
    \E slot \in Slots :
        \/ ReceiveLive(slot)
        \/ StepExit(slot)
        \/ StepSettingsEnter(slot)
        \/ StepSettingsCancel(slot)
        \/ StepTextInput(slot)
        \/ StepGenerate(slot)
        \/ StepRequest(slot)
        \/ StepSend(slot)

\* a step of the handler in the slot that waits for nothing but the
\* goroutine's turn to run: a sync.Map operation or the reply
Proceed(slot) ==
    \/ StepExit(slot)
    \/ StepSettingsEnter(slot)
    \/ StepSettingsCancel(slot)
    \/ StepTextInput(slot)
    \/ StepGenerate(slot)
    \/ StepSend(slot)

\* client.Do gives up: the http.Client's Timeout of 20 seconds has passed
\* (or the transport has failed), and the handler reports it
Timeout(slot) ==
    /\ StepRequest(slot)
    /\ sent' = <<Reply(running[slot].c,
                       "Failed to generate image: network error or service unavailable.",
                       "mainMenuMarkup")>>

\* Every goroutine of a handler gets to run; nothing is assumed of the
\* arrival of updates and nothing of the image API, which may never answer.
SpecStall ==
    /\ Init
    /\ [][NextLive]_vars
    /\ \A slot \in Slots : WF_vars(Proceed(slot))

\* As SpecStall, and the Timeout of the http.Client runs out.
SpecTimeout ==
    /\ Init
    /\ [][NextLive]_vars
    /\ \A slot \in Slots : WF_vars(Proceed(slot))
    /\ \A slot \in Slots : WF_vars(Timeout(slot))

\* the reply that reports a transport failure or timeout of the image API
Unavailable(c) ==
    Reply(c, "Failed to generate image: network error or service unavailable.",
          "mainMenuMarkup")

\* C21: every invocation of image generation ends: a handler that has
\* reached generateAndSendImage returns, even if the image API never
\* answers; it leaves the wait for the API with one request made and exactly
\* one outcome, which is the photo of an answer or else, the request given
\* up, the Unavailable reply.
C21_GenerationEnds ==
    /\ \A slot \in Slots :
          (running[slot].pc \in {"gen_load", "gen_do"})
              ~> (running[slot].pc = "returned")
    /\ [][\A slot \in Slots :
             (running[slot].pc = "gen_do" /\ running'[slot].pc # "gen_do")
             => /\ running'[slot].pc = "returned"
                /\ event'.sender = running[slot].c.sender
                /\ Len(httpRequests') = 1
                /\ Len(sent') = 1
                /\ \/ sent'[1].msg = "photo"
                   \/ sent'[1] = Unavailable(running[slot].c)]_vars

\* C21 witness: the image generation for one user has ended with the
\* Unavailable reply while the handler of another user still waits for the
\* image API.
C21_Witness ==
    \E slot \in Slots :
        /\ running[slot].pc = "gen_do"
        /\ event.endpoint = "OnText"
        /\ event.sender # running[slot].c.sender
        /\ Len(httpRequests) = 1
        /\ sent = <<Unavailable(Context(event.sender, event.text))>>

\* C26: while the handler of one user waits for the image API, an update of
\* another user can be received as long as a handler can be started at all,
\* and every handler of another user that is in progress goes on to return
\* or to its own wait for the image API, however long the first one waits.
C26_OthersProceed ==
    /\ [](\A slot \in Slots :
            (/\ running[slot].pc = "gen_do"
             /\ \E free \in Slots : running[free].pc = "returned")
            => ENABLED (\E free \in Slots :
                          /\ ReceiveLive(free)
                          /\ running'[free].c.sender # running[slot].c.sender))
    /\ \A slot \in Slots : \A other \in Slots \ {slot} :
          (/\ running[slot].pc = "gen_do"
           /\ InProgress(other)
           /\ running[other].c.sender # running[slot].c.sender)
              ~> (running[other].pc \in {"returned", "gen_do"})

\* C26 witness: the handler of one user waits for the image API, and a
\* cancel of another user, sent in a settings session, has been handled to
\* the end and answered.
C26_Witness ==
    \E slot \in Slots :
        /\ running[slot].pc = "gen_do"
        /\ event.sender # running[slot].c.sender
        /\ event.endpoint = "/cancel_settings"
        /\ sent # <<>> /\ sent[1].msg = "Settings mode cancelled"
        /\ sent[1].to = event.sender
        /\ Idle(event.sender)

\* ------------------------------------------------------- /start as a reset
\* C32: /start resets the session from any state: after it is handled the
\* sender's mode is Idle, no field is awaited and there are no temporary
\* settings (edits that were not saved are gone), while the permanent store
\* is what it was: the saved settings are unchanged and a user who had no
\* entry has none.
C32_StartResets ==
    [][\A userID \in Users :
          Handles(userID, {"/start"})
          => (/\ ~InSettings(userID)'
              /\ Pending(userID)' = ""
              /\ ~Has(tempUserSettingsStore', userID)
              /\ userSettingsStore' = userSettingsStore
              /\ Has(userSettingsStore', userID) <=> Has(userSettingsStore, userID)
              /\ SavedSettings(userID)' = SavedSettings(userID))]_vars

\* C32 witness: /start has been handled for a user who has been in a
\* settings session and has saved a text color before: the user is Idle with
\* nothing awaited and no temporary settings, and the saved color is kept.
C32_Witness ==
    \E userID \in Users :
        /\ event.sender = userID /\ event.endpoint = "/start"
        /\ sent = <<[to |-> userID, msg |-> "Hello", markup |-> "mainMenuMarkup"]>>
        /\ ~InSettings(userID) /\ Pending(userID) = ""
        /\ ~Has(tempUserSettingsStore, userID)
        /\ Has(userSettingsStore, userID)
        /\ userSettingsStore[userID].TextColor = <<"f","f","f">>

\* ------------------------------- one user's handlers, one after the other
\* The handlers step by step as in SpecSteps, with the events of a user
\* handled one at a time: the handler of an update is started when no
\* handler of its sender is in progress.
ReceiveSerial(slot) ==
    /\ Receive(slot)
    /\ \A other \in Slots \ {slot} :
          InProgress(other) => running[other].c.sender # running'[slot].c.sender

NextSerial ==
    \E slot \in Slots :
        \/ ReceiveSerial(slot)
        \/ StepExit(slot)
        \/ StepSettingsEnter(slot)
        \/ StepSetColor(slot)
        \/ StepSettingsSave(slot)
        \/ StepSettingsCancel(slot)
        \/ StepTextInput(slot)
        \/ StepGenerate(slot)
        \/ StepRequest(slot)
        \/ StepSend(slot)

SpecSerial == Init /\ [][NextSerial]_vars

Saving(slot) ==
    /\ running[slot].endpoint \in SaveEndpoints
    /\ \/ running[slot].pc = "save_store"
       \/ /\ running[slot].pc \in {"exit_mode", "exit_waiting", "exit_temp", "send"}
          /\ running[slot].reply.msg = "Settings saved successfully!"

\* C33: a save writes the permanent store before it clears the edit: in
\* every state in which a save that found temporary settings is in progress,
\* the values it saves are held by the permanent store or by the temporary
\* settings; so in no state have the temporary settings been deleted while
\* the permanent store holds the old values, and no step of the save clears
\* the mode, the awaited field or the temporary settings before the
\* permanent store holds the values.
C33_StoreBeforeClear ==
    /\ [](\A slot \in Slots :
            Saving(slot)
            => LET userID == running[slot].c.sender
                   edited == running[slot].settings
               IN  \/ Has(userSettingsStore, userID)
                      /\ userSettingsStore[userID] = edited
                   \/ Has(tempUserSettingsStore, userID)
                      /\ tempUserSettingsStore[userID] = edited)
    /\ [][\A slot \in Slots :
             (/\ Saving(slot)
              /\ running'[slot] # running[slot]
              /\ \/ tempUserSettingsStore' # tempUserSettingsStore
                 \/ userInSettingsMode' # userInSettingsMode
                 \/ userWaitingFor' # userWaitingFor)
             => (/\ Has(userSettingsStore, running[slot].c.sender)
                 /\ userSettingsStore[running[slot].c.sender]
                       = running[slot].settings)]_vars

\* C33 witness: a save is between its two writes: the permanent store holds
\* the edited text color, and the mode and the temporary settings are still
\* those of the session.
C33_Witness ==
    \E slot \in Slots :
        LET userID == running[slot].c.sender
        IN  /\ Saving(slot) /\ running[slot].pc = "exit_mode"
            /\ running[slot].settings.TextColor = <<"f","f","f">>
            /\ userSettingsStore[userID] = running[slot].settings
            /\ Has(tempUserSettingsStore, userID)
            /\ tempUserSettingsStore[userID] = running[slot].settings
            /\ InSettings(userID)

\* C34: with the events of a user handled one at a time, a user whose mode
\* is InSettings has temporary settings in every state, the states between
\* two store operations of a handler included: the step that sets the mode
\* finds the temporary settings stored, and the step that deletes the
\* temporary settings finds the mode cleared.
C34_TempWhileInSettings ==
    /\ [](\A userID \in Users :
            InSettings(userID) => Has(tempUserSettingsStore, userID))
    /\ [][\A userID \in Users :
             /\ (~InSettings(userID) /\ InSettings(userID)')
                   => Has(tempUserSettingsStore, userID)
             /\ (Has(tempUserSettingsStore, userID)
                    /\ ~Has(tempUserSettingsStore', userID))
                   => ~InSettings(userID)]_vars

\* C34 witness: a cancel is between two store operations: it has cleared
\* the mode of a user whose temporary settings hold an edit, and has not
\* yet deleted them.
C34_Witness ==
    \E slot \in Slots :
        LET userID == running[slot].c.sender
        IN  /\ running[slot].endpoint \in CancelEndpoints
            /\ running[slot].pc = "exit_temp"
            /\ ~InSettings(userID)
            /\ Has(tempUserSettingsStore, userID)
            /\ tempUserSettingsStore[userID].TextColor = <<"f","f","f">>

\* ------------------------------------ handlers of one user, interleaved
\* no handler invocation is in progress
Quiescent == \A slot \in Slots : ~InProgress(slot)

\* C35: the session state of a user is consistent whenever all handlers
\* have finished, however the handlers of the user were interleaved:
\* temporary settings exist if and only if the mode is InSettings, and a
\* field is awaited only if the mode is InSettings; and no update is lost:
\* when the last handler to finish reports a color as temporarily set and
\* the user has temporary settings, they hold that color in that field.
C35_ConsistentAfterInterleaving ==
    /\ [](Quiescent
            => \A userID \in Users :
                  /\ Has(tempUserSettingsStore, userID) <=> InSettings(userID)
                  /\ Pending(userID) # "" => InSettings(userID))
    /\ [][(/\ Quiescent'
           /\ ~Quiescent
           /\ sent' # <<>>
           /\ sent'[1].msg = "Temporarily set"
           /\ Has(tempUserSettingsStore', sent'[1].to))
          => tempUserSettingsStore'[sent'[1].to][FieldOf(sent'[1].settingType)]
                = sent'[1].value]_vars

\* ------------------------------------------- the colors of an image request
\* C36: every image request passed to the image API carries, as color and
\* as background, exactly 3 or 6 hexadecimal digits and no '#', whatever
\* events came before and whatever values the settings workflow accepted
\* and saved.
C36_RequestColorsAreHex ==
    \A i \in 1..Len(httpRequests) :
        /\ IsHexColor(httpRequests[i].color)
        /\ IsHexColor(httpRequests[i].background)

\* C36 witness: an image request of a user whose saved text color holds a
\* '#' (the value ##fff was accepted and saved) and whose saved background
\* is a 6 digit value of mixed case: the request carries fff and 1A2b3c.
C36_Witness ==
    \E userID \in Users :
        /\ event.sender = userID /\ event.endpoint = "OnText"
        /\ Len(httpRequests) = 1
        /\ Has(userSettingsStore, userID)
        /\ userSettingsStore[userID].TextColor = <<"#","f","f","f">>
        /\ userSettingsStore[userID].BgColor = <<"1","A","2","b","3","c">>
        /\ httpRequests[1].color = <<"f","f","f">>
        /\ httpRequests[1].background = <<"1","A","2","b","3","c">>

\* ----------------------------------------------- the keyboard of a reply
\* C37: with each event handled to the end, every reply of a handler
\* carries the keyboard of the session state the handler leaves its sender
\* in: the settings keyboard if and only if the sender's mode is InSettings
\* then, the main keyboard if and only if it is Idle.
C37_KeyboardMatchesMode ==
    \A i \in 1..Len(sent) :
        /\ sent[i].markup \in {"settingsMenuMarkup", "mainMenuMarkup"}
        /\ sent[i].markup = "settingsMenuMarkup" <=> InSettings(sent[i].to)
        /\ sent[i].markup = "mainMenuMarkup" <=> ~InSettings(sent[i].to)

\* C37 witness: free text that is no color, sent while the text color is
\* awaited, has been rejected with the settings keyboard, and the sender is
\* still in settings mode.
C37_Witness ==
    \E userID \in Users :
        /\ event.sender = userID /\ event.endpoint = "OnText"
        /\ Len(sent) = 1
        /\ sent[1].msg = "doesn't look like a valid HEX color"
        /\ sent[1].to = userID
        /\ sent[1].markup = "settingsMenuMarkup"
        /\ InSettings(userID)
        /\ Pending(userID) = "tx_color"

\* ------------------------------------------------- every event is answered
\* C38: every handled event (start, enter, color-set, save, cancel, free
\* text) ends with at least one reply, and every reply goes to the sender of
\* the event; this on every path, the rejection of a malformed value, the
\* state fault of missing temporary settings and every failure of the image
\* request included; and the process goes on serving.
C38_EveryEventAnswered ==
    [][\A userID \in Users :
          Handles(userID, registerHandlers)
          => (/\ Len(sent') >= 1
              /\ \A i \in 1..Len(sent') : sent'[i].to = userID
              /\ process'.pc = "serving")]_vars

\* C38 witness: the image was generated and the photo could not be
\* delivered: the handler has told the sender so.
C38_Witness ==
    \E userID \in Users :
        /\ event.sender = userID /\ event.endpoint = "OnText"
        /\ Len(httpRequests) = 1
        /\ Len(sent) = 2
        /\ sent[1].msg = "photo" /\ sent[1].to = userID
        /\ sent[2] = [to |-> userID, msg |-> "Failed to send the generated image.",
                      markup |-> "mainMenuMarkup"]

\* ------------------------------------------------------------ the counters
\* The handlers of Spec with the counters counted. A counter has no upper
\* limit in the program; an event that would take one past MaxCount is left
\* out.
MaxCount == 2

\* generateAndSendImage: the counters after one image generation, with what
\* the image API and Telegram do as api: the request counter at the start,
\* the failure counter on each failure path, the success counter once the
\* direct link is there, before the photo is sent
ImageMetrics(m, api) ==
    LET requested == [m EXCEPT !.imageGenRequestCounter = @ + 1]
    IN  IF \/ api.reqErr
           \/ api.doErr
           \/ api.statusCode # 200
           \/ api.decodeErr
           \/ api.Status # "OK"
           \/ api.DirectLink = ""
        THEN [requested EXCEPT !.imageGenFailureCounter = @ + 1]
        ELSE IF api.sendErr
        THEN [requested EXCEPT !.imageGenSuccessCounter = @ + 1,
                               !.imageGenFailureCounter = @ + 1]
        ELSE [requested EXCEPT !.imageGenSuccessCounter = @ + 1]

\* handleSettingsSave: the counters after one save event
SaveMetrics(m) == [m EXCEPT !.settingsSaveCounter = @ + 1]

\* The update handled, in the specification that counts.
Metered(endpoint, userID, text) ==
    /\ event' = [endpoint |-> endpoint, sender |-> userID, text |-> text]
    /\ History(userID)
    /\ UNCHANGED <<trail, probe, running, process>>

\* registerHandlers, each update handled to the end, with the counters
MeterStart(userID) ==
    /\ handleStart(Context(userID, CmdStart))
    /\ UNCHANGED metrics
    /\ Metered("/start", userID, CmdStart)

MeterSettingsEnter(userID) ==
    /\ handleSettingsEnter(Context(userID, CmdSettings))
    /\ UNCHANGED metrics
    /\ Metered("/settings", userID, CmdSettings)

MeterSetColor(userID) ==
    \E update \in StepUpdates :
        /\ update.endpoint \in {"/tx_color", "/bg_color"}
        /\ handleSetColor(Context(userID, update.text))
        /\ UNCHANGED metrics
        /\ Metered(update.endpoint, userID, update.text)

MeterSettingsSave(userID) ==
    \E m \in {[endpoint |-> "btnSaveChanges", text |-> btnSaveChanges],
              [endpoint |-> "/save_settings", text |-> CmdSaveSettings]} :
        /\ metrics.settingsSaveCounter < MaxCount
        /\ metrics' = SaveMetrics(metrics)
        /\ handleSettingsSave(Context(userID, m.text))
        /\ Metered(m.endpoint, userID, m.text)

MeterSettingsCancel(userID) ==
    /\ handleSettingsCancel(Context(userID, CmdCancelSettings))
    /\ UNCHANGED metrics
    /\ Metered("/cancel_settings", userID, CmdCancelSettings)

\* handleTextInput: generateAndSendImage is called for the text of a user
\* who is awaited for no field and is not in settings mode
MeterTextInput(userID) ==
    \E text \in {<<"f","f","f">>, <<"h","e","l","l","o">>},
       api \in ApiOutcomes :
        LET c == Context(userID, text)
            userIsWaiting == Has(userWaitingFor, userID)
            waitingFor == userWaitingFor[userID]
        IN  /\ IF \/ userIsWaiting /\ waitingFor \in STRING /\ waitingFor # ""
                  \/ isUserInSettingsMode(userID)
               THEN /\ handleTextInput(c)
                    /\ UNCHANGED metrics
               ELSE /\ metrics.imageGenRequestCounter < MaxCount
                    /\ generateAndSendImage(c, api)
                    /\ metrics' = ImageMetrics(metrics, api)
            /\ Metered("OnText", userID, text)

NextMetrics ==
    \E userID \in Users :
        \/ MeterStart(userID)
        \/ MeterSettingsEnter(userID)
        \/ MeterSetColor(userID)
        \/ MeterSettingsSave(userID)
        \/ MeterSettingsCancel(userID)
        \/ MeterTextInput(userID)

SpecMetrics == Init /\ [][NextMetrics]_vars

\* C39: the image counters count each request once: an image generation
\* adds one to kbot.image.requests.total and one to exactly one of
\* kbot.image.success.total and kbot.image.failure.total, whatever its
\* outcome, a photo that could not be delivered included; so with no
\* request in flight the request counter is the sum of the other two.
C39_ImageCountersExclusive ==
    /\ [](metrics.imageGenRequestCounter
            = metrics.imageGenSuccessCounter + metrics.imageGenFailureCounter)
    /\ [][\A userID \in Users :
             GeneratesImage(userID)
             => /\ metrics'.imageGenRequestCounter
                      = metrics.imageGenRequestCounter + 1
                /\ \/ /\ metrics'.imageGenSuccessCounter
                            = metrics.imageGenSuccessCounter + 1
                      /\ metrics'.imageGenFailureCounter
                            = metrics.imageGenFailureCounter
                   \/ /\ metrics'.imageGenSuccessCounter
                            = metrics.imageGenSuccessCounter
                      /\ metrics'.imageGenFailureCounter
                            = metrics.imageGenFailureCounter + 1]_vars

\* the step handles a save of a user who is in settings mode and has
\* temporary settings: the save that copies them into the permanent store
CopiesTemporary(userID) ==
    /\ Handles(userID, SaveEndpoints)
    /\ InSettings(userID)
    /\ Has(tempUserSettingsStore, userID)

\* C40: kbot.settings.save.total counts the saves: a step adds one to it if
\* it handles a save that copies temporary settings into the permanent
\* store, and leaves it as it is otherwise, a save rejected outside
\* settings mode and a save that finds no temporary settings included.
C40_SaveCounterCountsSaves ==
    [][metrics'.settingsSaveCounter
          = metrics.settingsSaveCounter
            + (IF \E userID \in Users : CopiesTemporary(userID) THEN 1 ELSE 0)]_vars

====
